---- MODULE Spec2Model ----
(***************************************************************************)
(* Model of the comparison engine of the inference-perf dashboard          *)
(* (src/api_utils.py): the record normaliser, the commit resolver, the     *)
(* grouping and pairing stage, the diff formatter and the filter/sorter of *)
(* process_data_details_compare_response, and map_compare_pair_response.   *)
(*                                                                         *)
(* Python values are tagged records: Absent (key not in the dict), None,   *)
(* S(s) a str, I(n) an int, F(m) a finite float of value m/1000, Inf and   *)
(* NaN the non-finite floats, DT(...) a str of the shape                   *)
(* YYYY-MM-DDThh:mm:ss with the given numbers in its six places.           *)
(* Timestamps are taken with the local time zone equal to UTC.             *)
(***************************************************************************)
EXTENDS Integers, Sequences, FiniteSets, TLC

VARIABLES hits, startTime, endTime, pc, exc, valid_data, warnings, start_commit,
          end_commit, data_groups, all_combinations, result, output,
          old_data, new_data, row, params, checked, query_args, query,
          request, es_handler, es_calls, response,
          lock, es_index, es_doc, calls, es_writes,
          todo, total_data, total_existing_ids, commit_id_grouped, commit_existing_ids,
          date_grouped, date_existing_ids, model_commit_pairs, all_valid_metrics

vars == <<hits, startTime, endTime, pc, exc, valid_data, warnings, start_commit,
          end_commit, data_groups, all_combinations, result, output,
          old_data, new_data, row, params, checked, query_args, query,
          request, es_handler, es_calls, response,
          lock, es_index, es_doc, calls, es_writes,
          todo, total_data, total_existing_ids, commit_id_grouped, commit_existing_ids,
          date_grouped, date_existing_ids, model_commit_pairs, all_valid_metrics>>

pipeVars == <<hits, startTime, endTime, pc, exc, valid_data, warnings, start_commit,
              end_commit, data_groups, all_combinations, result, output>>

mapVars == <<old_data, new_data, row>>

apiVars == <<params, checked, query_args, query>>

handlerVars == <<request, es_handler, es_calls, response>>

esVars == <<lock, es_index, es_doc, calls, es_writes>>

dpVars == <<todo, total_data, total_existing_ids, commit_id_grouped, commit_existing_ids,
            date_grouped, date_existing_ids, model_commit_pairs, all_valid_metrics>>

svcVars == <<handlerVars, esVars, dpVars>>

(***************************************************************************)
(* Python values                                                           *)
(***************************************************************************)
Absent == [k |-> "absent"]
None == [k |-> "none"]
Inf == [k |-> "inf"]
NaN == [k |-> "nan"]
S(s) == [k |-> "str", s |-> s]
I(n) == [k |-> "int", v |-> n]
F(m) == [k |-> "float", milli |-> m]
DT(Y, M, D, h, mi, sec) ==
    [k |-> "dtstr", Y |-> Y, M |-> M, D |-> D, h |-> h, mi |-> mi, sec |-> sec]

\* isinstance(v, str)
IsStr(v) == v.k \in {"str", "dtstr"}

\* isinstance(v, (int, float))
IsNumber(v) == v.k \in {"int", "float", "inf", "nan"}

\* bool(v): the truth value of a Python value
Truthy(v) ==
    CASE v.k = "absent" -> FALSE
      [] v.k = "none" -> FALSE
      [] v.k = "str" -> v.s /= ""
      [] v.k = "dtstr" -> TRUE
      [] v.k = "int" -> v.v /= 0
      [] v.k = "float" -> v.milli /= 0
      [] OTHER -> TRUE

\* the value of a finite number in thousandths
Milli(v) == IF v.k = "int" THEN v.v * 1000 ELSE v.milli

Abs(n) == IF n < 0 THEN -n ELSE n

\* int(x) of a finite float given in thousandths: truncation towards zero
Trunc(m) == IF m >= 0 THEN m \div 1000 ELSE -((-m) \div 1000)

\* round(x, 2) of a value given in units of 1/10 of the result's hundredths
\* (nearest hundredth, a tie to the even one)
RoundDiv(n, d) ==
    LET q == n \div d
        r == n - q * d
    IN  IF 2 * r < d THEN q
        ELSE IF 2 * r > d THEN q + 1
        ELSE IF q % 2 = 0 THEN q ELSE q + 1

TwoDigits(n) == IF n < 10 THEN "0" \o ToString(n) ELSE ToString(n)

\* f"{val:.2f}" of a finite number given in thousandths
Format2f(m) ==
    LET c == RoundDiv(Abs(m), 10)
        body == ToString(c \div 100) \o "." \o TwoDigits(c % 100)
    IN  IF m < 0 THEN "-" \o body ELSE body

\* f"{val:.0f}" of an int
Format0f(n) == ToString(n)

\* str(v) of a str or an int
Str(v) ==
    CASE v.k = "str" -> v.s
      [] v.k = "dtstr" ->
            ToString(v.Y) \o "-" \o TwoDigits(v.M) \o "-" \o TwoDigits(v.D) \o "T"
            \o TwoDigits(v.h) \o ":" \o TwoDigits(v.mi) \o ":" \o TwoDigits(v.sec)
      [] v.k = "int" -> ToString(v.v)

(***************************************************************************)
(* Records: a dict of the store is Dict(f), f giving every key its value   *)
(* or Absent.                                                              *)
(***************************************************************************)
MetricKeys == {"mean_e2el_ms", "mean_itl_ms", "mean_tpot_ms", "mean_ttft_ms",
               "p99_itl_ms", "p99_tpot_ms", "p99_ttft_ms", "request_throughput",
               "output_token_throughput", "total_token_throughput"}

CoreKeys == {"model_name", "merged_at", "request_rate", "commit_id", "tp", "device"}

AddedKeys == {"time_stamp", "tp_int"}

AllKeys == CoreKeys \cup MetricKeys \cup AddedKeys

Dict(f) == [k |-> "dict", f |-> f]

\* {}: the dict with no key
EmptyDict == Dict([key \in AllKeys |-> Absent])

\* bool(d) of a dict or None, as in "if old_data"
DictTruthy(d) == d.k = "dict" /\ \E key \in AllKeys : d.f[key].k /= "absent"

\* _safe_get(es_source, key, default)
_safe_get(es_source, key, default) ==
    IF es_source.k /= "dict" THEN default
    ELSE IF es_source.f[key].k = "absent" THEN default
    ELSE es_source.f[key]

\* v in invalid_data, invalid_data = ["", "null", None]
InInvalid(v) == v.k = "none" \/ (v.k = "str" /\ v.s \in {"", "null"})

(***************************************************************************)
(* _convert_datetime_to_timestamp                                          *)
(***************************************************************************)
IsLeap(y) == (y % 4 = 0 /\ y % 100 /= 0) \/ y % 400 = 0

DaysInMonth(y, m) ==
    IF m = 2 THEN (IF IsLeap(y) THEN 29 ELSE 28)
    ELSE IF m \in {4, 6, 9, 11} THEN 30 ELSE 31

\* days from 1970-01-01 to the civil date y-m-d
DaysFromCivil(y, m, d) ==
    LET yy == IF m <= 2 THEN y - 1 ELSE y
        era == yy \div 400
        yoe == yy - era * 400
        mp == (m + 9) % 12
        doy == (153 * mp + 2) \div 5 + d - 1
        doe == yoe * 365 + yoe \div 4 - yoe \div 100 + doy
    IN  era * 146097 + doe - 719468

\* datetime.strptime(s, "%Y-%m-%dT%H:%M:%S") succeeds
StrptimeOk(s) ==
    /\ s.k = "dtstr"
    /\ s.Y \in 1..9999
    /\ s.M \in 1..12
    /\ s.D \in 1..DaysInMonth(s.Y, s.M)
    /\ s.h \in 0..23
    /\ s.mi \in 0..59
    /\ s.sec \in 0..59

\* int(dt.timestamp())
Timestamp(s) ==
    DaysFromCivil(s.Y, s.M, s.D) * 86400 + s.h * 3600 + s.mi * 60 + s.sec

\* _convert_datetime_to_timestamp(datetime_str): an I(n), None, or
\* [k |-> "raise"] when strptime is handed a value that is not a str
\* (TypeError is not caught)
_convert_datetime_to_timestamp(datetime_str) ==
    IF ~Truthy(datetime_str) THEN None
    ELSE IF ~IsStr(datetime_str) THEN [k |-> "raise", exc |-> "TypeError"]
    ELSE IF StrptimeOk(datetime_str) THEN I(Timestamp(datetime_str))
    ELSE None

(***************************************************************************)
(* The record normaliser of process_data_details_compare_response          *)
(***************************************************************************)
MaxNumeral == 20

\* float(x): a float value, or [k |-> "error"] for ValueError / TypeError
PyFloat(x) ==
    CASE x.k = "int" -> F(x.v * 1000)
      [] x.k \in {"float", "inf", "nan"} -> x
      [] x.k = "str" ->
            LET numerals == {n \in 0..MaxNumeral : ToString(n) = x.s}
            IN  IF numerals /= {} THEN F(1000 * (CHOOSE n \in numerals : TRUE))
                ELSE [k |-> "error"]
      [] OTHER -> [k |-> "error"]

\* a check that takes every float for a whole number
IsIntegerAny(x) == x.k = "float"

\* x.is_integer() of a float
IsInteger(x) == x.k = "float" /\ x.milli % 1000 = 0

\* int(x) of a number: an I(n), or [k |-> "raise"] for a non-finite float
PyInt(x) ==
    CASE x.k = "int" -> x
      [] x.k = "float" -> I(Trunc(x.milli))
      [] x.k = "inf" -> [k |-> "raise", exc |-> "OverflowError"]
      [] x.k = "nan" -> [k |-> "raise", exc |-> "ValueError"]

\* the dict appended to valid_data
NormalizedRecord(source, time_stamp, commit_id, request_rate, tp_int) ==
    Dict([key \in AllKeys |->
            CASE key = "time_stamp" -> time_stamp
              [] key = "commit_id" -> commit_id
              [] key = "request_rate" -> request_rate
              [] key = "tp_int" -> tp_int
              [] OTHER -> IF source.k = "dict" THEN source.f[key] ELSE Absent])

\* one round of the loop over the hits: [st |-> "keep", rec |-> ...],
\* [st |-> "skip", why |-> ...] or [st |-> "raise", exc |-> ...]
NormalizeOne(source) ==
    LET model_name == _safe_get(source, "model_name", None)
        merged_at == _safe_get(source, "merged_at", None)
        request_rate == _safe_get(source, "request_rate", None)
        request_rate_float == PyFloat(request_rate)
        commit_id == _safe_get(source, "commit_id", None)
        tp == _safe_get(source, "tp", None)
        time_stamp == _convert_datetime_to_timestamp(merged_at)
        tp_int == PyInt(tp)
    IN  IF InInvalid(model_name) THEN [st |-> "skip", why |-> "model_name"]
        ELSE IF InInvalid(merged_at) THEN [st |-> "skip", why |-> "merged_at"]
        ELSE IF InInvalid(request_rate) THEN [st |-> "skip", why |-> "request_rate"]
        ELSE IF request_rate_float.k = "error"
             THEN [st |-> "skip", why |-> "request_rate_float"]
        ELSE IF ~IsInteger(request_rate_float)
             THEN [st |-> "skip", why |-> "request_rate_integer"]
        ELSE IF InInvalid(commit_id) THEN [st |-> "skip", why |-> "commit_id"]
        ELSE IF InInvalid(tp) \/ ~IsNumber(tp) THEN [st |-> "skip", why |-> "tp"]
        ELSE IF time_stamp.k = "raise" THEN [st |-> "raise", exc |-> time_stamp.exc]
        ELSE IF ~Truthy(time_stamp) THEN [st |-> "skip", why |-> "time_stamp"]
        ELSE IF tp_int.k = "raise" THEN [st |-> "raise", exc |-> tp_int.exc]
        ELSE [st |-> "keep",
              rec |-> NormalizedRecord(source, time_stamp, commit_id,
                                       I(Trunc(request_rate_float.milli)), tp_int)]

\* the loop over the hits from hit i on, valid and log being what the
\* earlier rounds left: [st |-> "ok", valid |-> ..., log |-> ...] or
\* [st |-> "raise", exc |-> ...]
RECURSIVE NormalizeFrom(_, _, _, _)
NormalizeFrom(hs, i, valid, log) ==
    IF i > Len(hs) THEN [st |-> "ok", valid |-> valid, log |-> log]
    ELSE LET r == NormalizeOne(hs[i])
         IN  CASE r.st = "keep" -> NormalizeFrom(hs, i + 1, Append(valid, r.rec), log)
               [] r.st = "skip" -> NormalizeFrom(hs, i + 1, valid, Append(log, r.why))
               [] r.st = "raise" -> [st |-> "raise", exc |-> r.exc]

Normalize(hs) == NormalizeFrom(hs, 1, <<>>, <<>>)

(***************************************************************************)
(* map_compare_pair_response                                               *)
(***************************************************************************)
\* _convert_ms_to_s(ms_value): round(ms_value / 1000, 2), or None
_convert_ms_to_s(ms_value) ==
    IF ~IsNumber(ms_value) \/ ms_value.k = "none" THEN None
    ELSE IF ms_value.k \in {"inf", "nan"} THEN ms_value
    ELSE F(10 * RoundDiv(Milli(ms_value), 10000))

\* f"{val:.2f}" of a number
FormatNumber2f(val) ==
    CASE val.k = "inf" -> "inf"
      [] val.k = "nan" -> "nan"
      [] OTHER -> Format2f(Milli(val))

\* a formatter that shows a missing value as the number 0.00
_safe_format_zero(val) ==
    IF val.k = "none" \/ ~IsNumber(val) THEN "0.00" ELSE FormatNumber2f(val)

\* _format_pair._safe_format(val)
_safe_format(val) ==
    IF val.k = "none" \/ ~IsNumber(val) THEN "null" ELSE FormatNumber2f(val)

\* the arrow of a paired field, the one character U+2192, written in ASCII
Arrow == "->"

\* _format_pair(old_val, new_val)
_format_pair(old_val, new_val) == _safe_format(old_val) \o Arrow \o _safe_format(new_val)

\* "_safe_get(data, key) if data else None"
SideValue(data, key) == IF DictTruthy(data) THEN _safe_get(data, key, None) ELSE None

\* the value _get_single_value formats: the old one when it is a number,
\* else the new one
SingleValue(old, new, key) ==
    LET old_val == SideValue(old, key)
        new_val == SideValue(new, key)
    IN  IF old_val.k /= "none" /\ IsNumber(old_val) THEN old_val ELSE new_val

\* _get_single_value(key)
_get_single_value(old, new, key) ==
    LET val == SingleValue(old, new, key)
    IN  IF val.k = "none" \/ ~IsNumber(val) THEN "null"
        ELSE IF val.k = "int" THEN Format0f(val.v)
        ELSE FormatNumber2f(val)

\* a base field that prefers the new side
_get_base_field_new_first(old, new, key) ==
    LET old_val == SideValue(old, key)
        new_val == SideValue(new, key)
    IN  IF new_val.k /= "none" THEN Str(new_val)
        ELSE IF old_val.k /= "none" THEN Str(old_val)
        ELSE "null"

\* _get_base_field(key)
_get_base_field(old, new, key) ==
    LET old_val == SideValue(old, key)
        new_val == SideValue(new, key)
    IN  IF old_val.k /= "none" THEN Str(old_val)
        ELSE IF new_val.k /= "none" THEN Str(new_val)
        ELSE "null"

\* int(s) of a str: an I(n), or [k |-> "raise"] (ValueError) when s is not
\* an integer numeral
PyIntOfStr(s) ==
    LET numerals == {n \in (-MaxNumeral)..MaxNumeral : ToString(n) = s}
    IN  IF numerals /= {} THEN I(CHOOSE n \in numerals : TRUE)
        ELSE [k |-> "raise", exc |-> "ValueError"]

\* the request_rate entry of the row
RowRequestRate(old, new) ==
    LET text == _get_single_value(old, new, "request_rate")
    IN  IF text /= "null" THEN PyIntOfStr(text) ELSE None

\* the arrow-paired fields of the row and the key of the record each reads
PairFields == {"latency_s", "mean_itl_ms", "mean_tpot_ms", "mean_ttft_ms",
               "p99_itl_ms", "p99_tpot_ms", "p99_ttft_ms",
               "serve_request_throughput_req_s", "serve_output_throughput_tok_s",
               "serve_total_throughput_tok_s", "requests_req_s", "tokens_tok_s"}

SourceKey(field) ==
    CASE field = "latency_s" -> "mean_e2el_ms"
      [] field \in {"serve_request_throughput_req_s", "requests_req_s"} ->
            "request_throughput"
      [] field = "serve_output_throughput_tok_s" -> "output_token_throughput"
      [] field \in {"serve_total_throughput_tok_s", "tokens_tok_s"} ->
            "total_token_throughput"
      [] OTHER -> field

\* one side of an arrow-paired field before formatting
PairSide(data, field) ==
    IF field = "latency_s"
    THEN (IF DictTruthy(data)
          THEN _convert_ms_to_s(_safe_get(data, "mean_e2el_ms", None)) ELSE None)
    ELSE SideValue(data, SourceKey(field))

IdentityFields == {"name", "tensor_parallel", "request_rate", "device"}

RowFields == IdentityFields \cup PairFields

\* map_compare_pair_response(old_data, new_data): [k |-> "row", f |-> ...],
\* or [k |-> "raise", exc |-> ...] when int() of the formatted request_rate
\* raises
map_compare_pair_response(old, new) ==
    LET rr == RowRequestRate(old, new)
    IN  IF rr.k = "raise" THEN rr
        ELSE [k |-> "row",
              f |-> [field \in RowFields |->
                      CASE field = "name" -> _get_base_field(old, new, "model_name")
                        [] field = "tensor_parallel" -> _get_single_value(old, new, "tp")
                        [] field = "request_rate" -> rr
                        [] field = "device" -> _get_base_field(old, new, "device")
                        [] OTHER -> _format_pair(PairSide(old, field),
                                                 PairSide(new, field))]]

(***************************************************************************)
(* Commit resolution, grouping, pairing, filter and sort of                *)
(* process_data_details_compare_response                                   *)
(***************************************************************************)
\* Distance with abs() left out
DistanceSigned(x, target) == x.f["time_stamp"].v - target

\* the key of min(): abs(x["time_stamp"] - target)
Distance(x, target) == Abs(x.f["time_stamp"].v - target)

\* MinIndex of a scan that replaces its candidate on "<=": the last of the nearest
MinIndexLast(valid, target) ==
    CHOOSE i \in 1..Len(valid) :
        /\ \A j \in 1..Len(valid) : Distance(valid[i], target) <= Distance(valid[j], target)
        /\ \A j \in (i + 1)..Len(valid) : Distance(valid[j], target) > Distance(valid[i], target)

\* the index min(valid_data, key=...) returns: the first of the nearest
MinIndex(valid, target) ==
    CHOOSE i \in 1..Len(valid) :
        /\ \A j \in 1..Len(valid) : Distance(valid[i], target) <= Distance(valid[j], target)
        /\ \A j \in 1..(i - 1) : Distance(valid[j], target) > Distance(valid[i], target)

\* min(valid_data, key=lambda x: abs(x["time_stamp"] - target))["commit_id"]
ResolveCommit(valid, target) == valid[MinIndex(valid, target)].f["commit_id"]

\* ResolveEndCommit by a scan of its own that keeps the last of the nearest
ResolveEndCommitOwnScan(valid, target_start, target_end, start) ==
    valid[MinIndexLast(valid, target_end)].f["commit_id"]

\* end_commit: start_commit again when the two targets are equal
ResolveEndCommit(valid, target_start, target_end, start) ==
    IF target_start = target_end THEN start ELSE ResolveCommit(valid, target_end)

\* the key of a record in data_groups
GroupKey(data) == <<data.f["model_name"], data.f["request_rate"], data.f["commit_id"]>>

\* data_groups: every key to the list of its records in the order of valid_data
DataGroups(valid) ==
    [key \in {GroupKey(valid[i]) : i \in 1..Len(valid)} |->
        SelectSeq(valid, LAMBDA data : GroupKey(data) = key)]

\* all_combinations of one group only
OneCombination(groups) ==
    {<<key[1], key[2]>> : key \in {g \in DOMAIN groups : g = CHOOSE h \in DOMAIN groups : TRUE}}

\* all_combinations
AllCombinations(groups) ==
    {<<key[1], key[2]>> : key \in {g \in DOMAIN groups : ~InInvalid(g[1])}}

\* FirstOfGroup taking the last record of the group
LastOfGroup(groups, key) ==
    IF key \in DOMAIN groups THEN groups[key][Len(groups[key])] ELSE None

\* "data_groups[key][0] if key in data_groups else None"
FirstOfGroup(groups, key) == IF key \in DOMAIN groups THEN groups[key][1] ELSE None

\* CompareResult with the two commits taken for each other
CompareResultSwapped(groups, combo, start, end) ==
    map_compare_pair_response(FirstOfGroup(groups, <<combo[1], combo[2], end>>),
                              FirstOfGroup(groups, <<combo[1], combo[2], start>>))

\* the row of one combination
CompareResult(groups, combo, start, end) ==
    map_compare_pair_response(FirstOfGroup(groups, <<combo[1], combo[2], start>>),
                              FirstOfGroup(groups, <<combo[1], combo[2], end>>))

\* PairRows with no row for a combination that has no record under either commit
PairRowsPresent(groups, order, start, end) ==
    LET present == SelectSeq(order, LAMBDA combo :
                        \/ <<combo[1], combo[2], start>> \in DOMAIN groups
                        \/ <<combo[1], combo[2], end>> \in DOMAIN groups)
    IN  [i \in 1..Len(present) |-> CompareResult(groups, present[i], start, end)]

\* PairRows going through the combinations twice
PairRowsTwice(groups, order, start, end) ==
    [i \in 1..(2 * Len(order)) |->
        CompareResult(groups, order[((i - 1) % Len(order)) + 1], start, end)]

\* the rows of the combinations taken in the given order
PairRows(groups, order, start, end) ==
    [i \in 1..Len(order) |-> CompareResult(groups, order[i], start, end)]

\* the orders a set can be iterated in
Orders(set) ==
    {order \in [1..Cardinality(set) -> set] :
        \A i, j \in 1..Cardinality(set) : i /= j => order[i] /= order[j]}

\* v in invalid_data for a field of a row
RowFieldInvalid(item, field) ==
    IF field = "request_rate" THEN InInvalid(item.f[field])
    ELSE item.f[field] \in {"", "null"}

\* the row is dropped by the filter
AllInvalid(item) ==
    /\ RowFieldInvalid(item, "name")
    /\ RowFieldInvalid(item, "tensor_parallel")
    /\ RowFieldInvalid(item, "request_rate")

\* a filter that drops every row
DropAllRows(rows) == SelectSeq(rows, LAMBDA item : FALSE)

FilterRows(rows) == SelectSeq(rows, LAMBDA item : ~AllInvalid(item))

\* float(s) of a field of a row, in thousandths
MaxCenti == 400

NumeralMilli(s) ==
    LET numerals == {n \in 0..MaxNumeral : Format0f(n) = s}
    IN  IF numerals /= {} THEN 1000 * (CHOOSE n \in numerals : TRUE)
        ELSE 10 * (CHOOSE c \in 0..MaxCenti : Format2f(10 * c) = s)

\* a sort key of the name alone
SortKeyNameOnly(item) ==
    << IF RowFieldInvalid(item, "name") THEN Inf ELSE S(item.f["name"]), F(0), F(0) >>

\* the sort key: every component a number in thousandths, a str or Inf
SortKey(item) ==
    << IF RowFieldInvalid(item, "name") THEN Inf ELSE S(item.f["name"]),
       IF RowFieldInvalid(item, "tensor_parallel") THEN Inf
       ELSE F(NumeralMilli(item.f["tensor_parallel"])),
       IF RowFieldInvalid(item, "request_rate") THEN Inf
       ELSE F(1000 * item.f["request_rate"].v) >>

\* Python's order of str: by code point, a proper prefix first
Alphabet == "-.0123456789ABCDEFGHIJKLMNOPQRSTUVWXYZ_abcdefghijklmnopqrstuvwxyz"

CharRank(c) == CHOOSE i \in 1..Len(Alphabet) : SubSeq(Alphabet, i, i) = c

RECURSIVE StrLess(_, _)
StrLess(a, b) ==
    IF Len(b) = 0 THEN FALSE
    ELSE IF Len(a) = 0 THEN TRUE
    ELSE IF SubSeq(a, 1, 1) = SubSeq(b, 1, 1)
         THEN StrLess(SubSeq(a, 2, Len(a)), SubSeq(b, 2, Len(b)))
    ELSE CharRank(SubSeq(a, 1, 1)) < CharRank(SubSeq(b, 1, 1))

\* x < y of two components of a sort key that are not equal
ComponentLess(x, y) ==
    CASE x.k = "str" /\ y.k = "str" -> StrLess(x.s, y.s)
      [] x.k = "float" /\ y.k = "float" -> x.milli < y.milli
      [] x.k = "float" /\ y.k = "inf" -> TRUE
      [] OTHER -> FALSE

\* a < b of two sort keys: the first component that differs decides
KeyLess(a, b) ==
    IF a[1] /= b[1] THEN ComponentLess(a[1], b[1])
    ELSE IF a[2] /= b[2] THEN ComponentLess(a[2], b[2])
    ELSE IF a[3] /= b[3] THEN ComponentLess(a[3], b[3])
    ELSE FALSE

\* the rows with their sort keys
Keyed(rows) == [i \in 1..Len(rows) |-> [key |-> SortKey(rows[i]), item |-> rows[i]]]

\* sorted() raises TypeError: a str name is compared with float("inf")
SortRaises(keyed) ==
    \E i, j \in 1..Len(keyed) : keyed[i].key[1].k = "str" /\ keyed[j].key[1].k = "inf"

\* entry put behind every entry of the sorted list that is not greater
InsertRow(sortedRows, entry) ==
    LET n == Len(sortedRows)
        greater == {i \in 1..n : KeyLess(entry.key, sortedRows[i].key)}
        at == IF greater /= {} THEN CHOOSE i \in greater : \A j \in greater : i <= j
              ELSE n + 1
    IN  SubSeq(sortedRows, 1, at - 1) \o <<entry>> \o SubSeq(sortedRows, at, n)

RECURSIVE InsertionSort(_)
InsertionSort(keyed) ==
    IF keyed = <<>> THEN <<>>
    ELSE InsertRow(InsertionSort(SubSeq(keyed, 1, Len(keyed) - 1)), keyed[Len(keyed)])

\* the rows left in the order they were built in
UnsortedRows(rows) == rows

\* sorted(filtered_result, key=...): stable
SortedRows(rows) ==
    LET sortedRows == InsertionSort(Keyed(rows))
    IN  [i \in 1..Len(rows) |-> sortedRows[i].item]

(***************************************************************************)
(* check_input_params                                                      *)
(***************************************************************************)
ES_MAX_RESULT_SIZE == 10000

required_keys == <<"startTime", "endTime", "models", "engineVersion">>

ParamKeys == {"startTime", "endTime", "models", "engineVersion", "size"}

\* sep.join(parts)
RECURSIVE Join(_, _)
Join(parts, sep) ==
    IF parts = <<>> THEN ""
    ELSE IF Len(parts) = 1 THEN parts[1]
    ELSE parts[1] \o sep \o Join(Tail(parts), sep)

\* s.split(sep) of a str for a separator of one character
RECURSIVE Split(_, _)
Split(s, sep) ==
    LET at == {i \in 1..Len(s) : SubSeq(s, i, i) = sep}
    IN  IF at = {} THEN <<s>>
        ELSE LET i == CHOOSE i \in at : \A j \in at : i <= j
             IN  <<SubSeq(s, 1, i - 1)>> \o Split(SubSeq(s, i + 1, Len(s)), sep)

\* a strip that leaves the blanks where they are
StripNothing(s) == s

\* s.strip(): s without the blanks at its two ends
Strip(s) ==
    LET inked == {i \in 1..Len(s) : SubSeq(s, i, i) /= " "}
    IN  IF inked = {} THEN ""
        ELSE SubSeq(s, CHOOSE i \in inked : \A j \in inked : i <= j,
                       CHOOSE i \in inked : \A j \in inked : j <= i)

\* [m.strip() for m in models.split(",") if m.strip()]
ModelsList(models) ==
    LET parts == Split(models, ",")
        stripped == [i \in 1..Len(parts) |-> Strip(parts[i])]
    IN  SelectSeq(stripped, LAMBDA m : m /= "")

\* a list of the missing keys that stops at the first of them
MissingFirst(p) ==
    LET missing == SelectSeq(required_keys, LAMBDA key : p[key].k \in {"absent", "none"})
    IN  IF missing = <<>> THEN <<>> ELSE <<missing[1]>>

\* [k for k in required_keys if k not in params or params[k] is None]
Missing(p) == SelectSeq(required_keys, LAMBDA key : p[key].k \in {"absent", "none"})

\* the messages of check_input_params, their Chinese words put in English
MsgMissing(missing) == "missing required parameters: " \o Join(missing, ",")

MsgModelsEmpty == "models must not be empty (or separators only)"

MsgEngineVersion(v) == "engineVersion invalid: " \o Str(v) \o ", only 0/1/2"

MsgTimeRange == "time range invalid: startTime > endTime"

\* v in [0, 1, 2]
InEngineVersions(v) == v.k = "int" /\ v.v \in {0, 1, 2}

CheckResult(valid, err_msg, processed_params) ==
    [k |-> "result", valid |-> valid, err_msg |-> err_msg,
     processed_params |-> processed_params]

\* check_input_params(params): a CheckResult, or [k |-> "raise"] (KeyError)
\* when params has no key "size"
check_input_params(p) ==
    LET missing == Missing(p)
        models_list == ModelsList(p["models"].s)
        processed_params ==
            [k |-> "dict",
             startTime |-> p["startTime"],
             endTime |-> p["endTime"],
             models |-> models_list,
             engineVersion |-> p["engineVersion"],
             size |-> IF p["size"].k = "none" THEN I(ES_MAX_RESULT_SIZE) ELSE p["size"]]
    IN  IF missing /= <<>> THEN CheckResult(FALSE, MsgMissing(missing), None)
        ELSE IF models_list = <<>> THEN CheckResult(FALSE, MsgModelsEmpty, None)
        ELSE IF p["size"].k = "absent" THEN [k |-> "raise", exc |-> "KeyError"]
        ELSE IF ~InEngineVersions(processed_params.engineVersion)
             THEN CheckResult(FALSE, MsgEngineVersion(processed_params.engineVersion), None)
        ELSE IF processed_params.startTime.v > processed_params.endTime.v
             THEN CheckResult(FALSE, MsgTimeRange, None)
        ELSE IF processed_params.models = <<>>
             THEN CheckResult(FALSE, "models must not be empty", None)
        ELSE CheckResult(TRUE, "", processed_params)

(***************************************************************************)
(* build_es_query                                                          *)
(***************************************************************************)
\* pd.Timestamp(t, unit="s").strftime("%Y-%m-%dT%H:%M:%S") of a second of
\* 1970-01-01
StrfTime(t) == DT(1970, 1, 1, t.v \div 3600, (t.v % 3600) \div 60, t.v % 60)

\* the clauses build_es_query appends to query["bool"]["must"]
ModelClause(model_names) ==
    IF model_names.k = "list" /\ Len(model_names.v) > 0
    THEN <<[k |-> "terms", field |-> "source.model_name", values |-> model_names.v]>>
    ELSE <<>>

EngineClause(engine_version) ==
    IF Truthy(engine_version)
    THEN <<[k |-> "term", field |-> "source.engine_version", value |-> engine_version]>>
    ELSE <<>>

RangeClause(start_time, end_time) ==
    IF Truthy(start_time) \/ Truthy(end_time)
    THEN <<[k |-> "range", field |-> "source.merged_at",
            gte |-> IF Truthy(start_time) THEN StrfTime(start_time) ELSE Absent,
            lte |-> IF Truthy(end_time) THEN StrfTime(end_time) ELSE Absent]>>
    ELSE <<>>

\* build_es_query(model_names, engine_version, start_time, end_time)
build_es_query(model_names, engine_version, start_time, end_time) ==
    LET must == ModelClause(model_names) \o EngineClause(engine_version)
                \o RangeClause(start_time, end_time)
    IN  IF must /= <<>> THEN [k |-> "bool", must |-> must] ELSE [k |-> "match_all"]

(***************************************************************************)
(* Inputs                                                                  *)
(***************************************************************************)
MaxHits == 3

\* the merged_at string of an epoch second of 1970-01-01
MergedAt(epoch) == DT(1970, 1, 1, epoch \div 3600, (epoch % 3600) \div 60, epoch % 60)

\* startTime and endTime are drawn from Epochs; the records are merged at
\* 100 or at 300, and 200 is as far from the one as from the other
Epochs == {100, 200, 300}

\* a commit whose records carry two merge times, and a second commit
\* merged at the later of them
CommitTimes == {<<S("c1"), 100>>, <<S("c1"), 300>>, <<S("c2"), 300>>}

MetricIndex(key) ==
    CASE key = "mean_e2el_ms" -> 0
      [] key = "mean_itl_ms" -> 1
      [] key = "mean_tpot_ms" -> 2
      [] key = "mean_ttft_ms" -> 3
      [] key = "p99_itl_ms" -> 4
      [] key = "p99_tpot_ms" -> 5
      [] key = "p99_ttft_ms" -> 6
      [] key = "request_throughput" -> 7
      [] key = "output_token_throughput" -> 8
      [] key = "total_token_throughput" -> 9

\* the record of the store with the given core fields whose device and
\* metrics tell the records of one hit list apart: record i has
\* mean_e2el_ms 1000 * i and the other metrics i.<index>0
RawRecord(model_name, merged_at, request_rate, commit_id, tp, i) ==
    Dict([key \in AllKeys |->
            CASE key = "model_name" -> model_name
              [] key = "merged_at" -> merged_at
              [] key = "request_rate" -> request_rate
              [] key = "commit_id" -> commit_id
              [] key = "tp" -> tp
              [] key = "device" -> IF i % 2 = 0 THEN Absent ELSE S("dev" \o ToString(i))
              [] key = "mean_e2el_ms" -> I(1000 * i)
              [] key \in MetricKeys -> F(1000 * i + 100 * MetricIndex(key))
              [] OTHER -> Absent])

\* the core fields of the hits of the comparison runs: valid records of
\* three (model, request_rate) combinations and the commits and merge times
\* of CommitTimes (the third combination was measured under c2 only), and a
\* record with the request_rate "null"
Combinations == {<<S("Llama3-7B"), I(16)>>, <<S("Qwen3-8B"), I(2)>>, <<S("Qwen3-8B"), I(16)>>}

ValidShapes ==
    {[model_name |-> p[1][1], request_rate |-> p[1][2], commit_id |-> p[2][1],
      merged_at |-> MergedAt(p[2][2])] :
        p \in {q \in Combinations \X CommitTimes :
                q[1] = <<S("Qwen3-8B"), I(16)>> => q[2] = <<S("c2"), 300>>}}

OddShapes ==
    {[model_name |-> S("Qwen3-8B"), request_rate |-> S("null"), commit_id |-> S("c1"),
      merged_at |-> MergedAt(100)]}

Shapes == ValidShapes \cup OddShapes

\* the hit at place i of a list: the first two hits run with tp 1, the
\* next two with tp 2
HitOf(shape, i) ==
    RawRecord(shape.model_name, shape.merged_at, shape.request_rate,
              shape.commit_id, I((i + 1) \div 2), i)

HitLists ==
    UNION {{[i \in 1..n |-> HitOf(shapes[i], i)] : shapes \in [1..n -> Shapes]} :
            n \in 0..MaxHits}

NoRow == [k |-> "none"]

\* the hit lists of the normaliser runs: a record with any of the values
\* below in its core fields, alone, before or behind a valid record
NormRecords(i) ==
    {RawRecord(model_name, merged_at, request_rate, commit_id, tp, i) :
        model_name \in {S("Qwen3-8B"), S("null"), S(""), None, Absent},
        merged_at \in {MergedAt(100), MergedAt(0), DT(1970, 13, 1, 0, 0, 0), S("null"),
                       Absent, I(12345), I(0)},
        request_rate \in {I(16), F(16000), F(16500), S("16"), S("abc"), S("null"), None},
        commit_id \in {S("c1"), S(""), None},
        tp \in {I(1), F(1500), S("1"), None, Inf, NaN}}
    \cup {None, EmptyDict}

GoodRecord(i) == RawRecord(S("Llama3-7B"), MergedAt(300), I(2), S("c2"), I(2), i)

NormLists ==
    {<<>>}
    \cup {<<x>> : x \in NormRecords(1)}
    \cup {<<x, GoodRecord(2)>> : x \in NormRecords(1)}
    \cup {<<GoodRecord(1), x>> : x \in NormRecords(2)}

\* the records map_compare_pair_response is applied to: as old_data (side 1)
\* and as new_data (side 2), with any of the values below in the identity
\* fields, or with the metrics absent, None, text or partly there
MapMetric(profile, key, side) ==
    CASE profile = "numbers" ->
            IF key = "mean_e2el_ms" THEN I(1000 * side)
            ELSE F(1000 * side + 100 * MetricIndex(key))
      [] profile = "absent" -> Absent
      [] profile = "none" -> None
      [] profile = "text" -> S("12.5")
      [] profile = "e2el_only" -> IF key = "mean_e2el_ms" THEN F(47400) ELSE Absent
      [] profile = "no_e2el" ->
            IF key = "mean_e2el_ms" THEN Absent
            ELSE F(1000 * side + 100 * MetricIndex(key))

MapRecord(model_name, device, tp, request_rate, profile, side) ==
    Dict([key \in AllKeys |->
            CASE key = "model_name" -> model_name
              [] key = "device" -> device
              [] key = "tp" -> tp
              [] key = "request_rate" -> request_rate
              [] key \in MetricKeys -> MapMetric(profile, key, side)
              [] OTHER -> Absent])

MapRecords(side) ==
    {MapRecord(model_name, device, tp, request_rate, "numbers", side) :
        model_name \in {S(IF side = 1 THEN "Qwen3-8B" ELSE "Llama3-7B"), None, Absent},
        device \in {S("dev" \o ToString(side)), S(""), Absent},
        tp \in {I(side), F(1500), S("x"), None},
        request_rate \in {I(16 \div side), F(16000), S("null"), None}}
    \cup {MapRecord(S("Qwen3-8B"), S("NPU"), I(1), I(16), profile, side) :
            profile \in {"absent", "none", "text", "e2el_only", "no_e2el"}}
    \cup {None, EmptyDict}

\* the parameter bags check_input_params is applied to
MaxModelsLen == 3

ModelChars == {"a", " ", ","}

RECURSIVE Concat(_)
Concat(chars) == IF chars = <<>> THEN "" ELSE chars[1] \o Concat(Tail(chars))

ModelTexts ==
    {Concat(chars) : chars \in UNION {[1..n -> ModelChars] : n \in 0..MaxModelsLen}}
    \cup {"Qwen3-8B,Llama3-7B", " Qwen3-8B , Llama3-7B ,"}

ParamBags ==
    [startTime : {Absent, None, I(100), I(200)},
     endTime : {Absent, None, I(100), I(200)},
     models : {Absent, None} \cup {S(text) : text \in ModelTexts},
     engineVersion : {Absent, None, I(-1), I(0), I(1), I(2), I(3), I(5), S("1")},
     size : {Absent, None, I(100), I(10000), I(10001), I(20000)}]

\* the arguments build_es_query is applied to
List(v) == [k |-> "list", v |-> v]

QueryArgs ==
    [model_names : {None, List(<<>>), List(<<"Qwen3-8B">>), List(<<"Qwen3-8B", "Llama3-7B">>)},
     engine_version : {None, S("0"), S("1"), S("2"), I(0), I(1), I(2)},
     start_time : {None, I(0), I(100), I(200)},
     end_time : {None, I(0), I(100), I(200)}]

NoParams == [k |-> "none"]

\* no call of check_input_params or of build_es_query is under way
IdleApi ==
    /\ params = NoParams
    /\ checked = NoRow
    /\ query_args = NoParams
    /\ query = NoRow

\* no request is being handled
IdleHandler ==
    /\ request = NoParams
    /\ es_handler = FALSE
    /\ es_calls = <<>>
    /\ response = NoRow

\* no thread is in a method of the ESHandler
IdleES ==
    /\ lock = 0
    /\ es_index = FALSE
    /\ es_doc = Absent
    /\ calls = <<>>
    /\ es_writes = {}

\* generate_metrics_data has not been called
IdleDP ==
    /\ todo = <<>>
    /\ total_data = <<>>
    /\ total_existing_ids = {}
    /\ commit_id_grouped = <<>>
    /\ commit_existing_ids = <<>>
    /\ date_grouped = <<>>
    /\ date_existing_ids = {}
    /\ model_commit_pairs = {}
    /\ all_valid_metrics = <<>>

IdleSvc == IdleHandler /\ IdleES /\ IdleDP

\* no call of process_data_details_compare_response or of
\* map_compare_pair_response is under way
IdlePipe ==
    /\ hits = <<>>
    /\ startTime = 0
    /\ endTime = 0
    /\ exc = ""
    /\ valid_data = <<>>
    /\ warnings = <<>>
    /\ start_commit = None
    /\ end_commit = None
    /\ data_groups = <<>>
    /\ all_combinations = {}
    /\ result = <<>>
    /\ output = <<>>
    /\ old_data = None
    /\ new_data = None
    /\ row = NoRow

InitPipe(lists, starts, ends) ==
    /\ IdleApi
    /\ IdleSvc
    /\ hits \in lists
    /\ startTime \in starts
    /\ endTime \in {e \in ends : startTime <= e}
    /\ pc = "start"
    /\ exc = ""
    /\ valid_data = <<>>
    /\ warnings = <<>>
    /\ start_commit = None
    /\ end_commit = None
    /\ data_groups = <<>>
    /\ all_combinations = {}
    /\ result = <<>>
    /\ output = <<>>
    /\ old_data = None
    /\ new_data = None
    /\ row = NoRow

Init == InitPipe(HitLists, Epochs, Epochs)

InitNorm == InitPipe(NormLists, {100}, {300})

InitMap ==
    /\ old_data \in MapRecords(1)
    /\ new_data \in MapRecords(2)
    /\ row = NoRow
    /\ IdleApi
    /\ IdleSvc
    /\ hits = <<>>
    /\ startTime = 0
    /\ endTime = 0
    /\ pc = "map"
    /\ exc = ""
    /\ valid_data = <<>>
    /\ warnings = <<>>
    /\ start_commit = None
    /\ end_commit = None
    /\ data_groups = <<>>
    /\ all_combinations = {}
    /\ result = <<>>
    /\ output = <<>>

(***************************************************************************)
(* process_data_details_compare_response, stage by stage                   *)
(***************************************************************************)
\* the loop over the hits
\* a normaliser that puts its records in the place of the hits
NormalizeHitsInPlace ==
    /\ pc = "start"
    /\ LET r == Normalize(hits)
       IN  IF r.st = "raise"
           THEN /\ pc' = "raised"
                /\ exc' = r.exc
                /\ UNCHANGED <<hits, valid_data, warnings>>
           ELSE /\ pc' = "normalized"
                /\ valid_data' = r.valid
                /\ hits' = r.valid
                /\ warnings' = r.log
                /\ exc' = exc
    /\ UNCHANGED <<startTime, endTime, start_commit, end_commit, data_groups,
                   all_combinations, result, output, mapVars, apiVars, svcVars>>

NormalizeHits ==
    /\ pc = "start"
    /\ LET r == Normalize(hits)
       IN  IF r.st = "raise"
           THEN /\ pc' = "raised"
                /\ exc' = r.exc
                /\ UNCHANGED <<valid_data, warnings>>
           ELSE /\ pc' = "normalized"
                /\ valid_data' = r.valid
                /\ warnings' = r.log
                /\ exc' = exc
    /\ UNCHANGED <<hits, startTime, endTime, start_commit, end_commit, data_groups,
                   all_combinations, result, output, mapVars, apiVars, svcVars>>

\* a return that goes on to the commit resolution, where min() of an empty
\* list raises
NoValidDataResolves ==
    /\ pc = "normalized"
    /\ valid_data = <<>>
    /\ pc' = "raised"
    /\ exc' = "ValueError"
    /\ UNCHANGED <<hits, startTime, endTime, valid_data, warnings, start_commit, end_commit,
                   data_groups, all_combinations, result, output, mapVars, apiVars, svcVars>>

\* "if not valid_data: return []"
NoValidData ==
    /\ pc = "normalized"
    /\ valid_data = <<>>
    /\ pc' = "done"
    /\ output' = <<>>
    /\ warnings' = Append(warnings, "no_valid_data")
    /\ UNCHANGED <<hits, startTime, endTime, exc, valid_data, start_commit, end_commit,
                   data_groups, all_combinations, result, mapVars, apiVars, svcVars>>

\* the two commits, data_groups and all_combinations
ResolveAndGroup ==
    /\ pc = "normalized"
    /\ valid_data /= <<>>
    /\ start_commit' = ResolveCommit(valid_data, startTime)
    /\ end_commit' = ResolveEndCommit(valid_data, startTime, endTime, start_commit')
    /\ data_groups' = DataGroups(valid_data)
    /\ all_combinations' = AllCombinations(data_groups')
    /\ IF all_combinations' = {}
       THEN pc' = "done" /\ warnings' = Append(warnings, "no_combinations")
       ELSE pc' = "grouped" /\ warnings' = warnings
    /\ UNCHANGED <<hits, startTime, endTime, exc, valid_data, result, output, mapVars, apiVars, svcVars>>

\* one row for every combination, in the order the set is iterated in
PairCombinations ==
    /\ pc = "grouped"
    /\ \E order \in Orders(all_combinations) :
        LET rows == PairRows(data_groups, order, start_commit, end_commit)
        IN  IF \E i \in 1..Len(rows) : rows[i].k = "raise"
            THEN /\ pc' = "raised"
                 /\ exc' = "ValueError"
                 /\ result' = result
            ELSE /\ pc' = "paired"
                 /\ result' = rows
                 /\ exc' = exc
    /\ UNCHANGED <<hits, startTime, endTime, valid_data, warnings, start_commit,
                   end_commit, data_groups, all_combinations, output, mapVars, apiVars, svcVars>>

\* the filter of the rows without identity and the sort
FilterAndSort ==
    /\ pc = "paired"
    /\ IF SortRaises(Keyed(FilterRows(result)))
       THEN pc' = "raised" /\ exc' = "TypeError" /\ output' = output
       ELSE pc' = "done" /\ exc' = exc /\ output' = SortedRows(FilterRows(result))
    /\ UNCHANGED <<hits, startTime, endTime, valid_data, warnings, start_commit,
                   end_commit, data_groups, all_combinations, result, mapVars, apiVars, svcVars>>

Next ==
    \/ NormalizeHits
    \/ NoValidData
    \/ ResolveAndGroup
    \/ PairCombinations
    \/ FilterAndSort

Spec == Init /\ [][Next]_vars

\* the hit lists of the runs the rows are counted in: records of three
\* combinations, one of them measured under c2 only, and a record the
\* normaliser skips
RowShapes ==
    {[model_name |-> S("Llama3-7B"), request_rate |-> I(16), commit_id |-> S("c1"),
      merged_at |-> MergedAt(100)],
     [model_name |-> S("Qwen3-8B"), request_rate |-> I(2), commit_id |-> S("c1"),
      merged_at |-> MergedAt(100)],
     [model_name |-> S("Qwen3-8B"), request_rate |-> I(2), commit_id |-> S("c2"),
      merged_at |-> MergedAt(300)],
     [model_name |-> S("Qwen3-8B"), request_rate |-> I(16), commit_id |-> S("c2"),
      merged_at |-> MergedAt(300)]}
    \cup OddShapes

RowLists ==
    UNION {{[i \in 1..n |-> HitOf(shapes[i], i)] : shapes \in [1..n -> RowShapes]} :
            n \in 0..MaxHits}

InitRows == InitPipe(RowLists, Epochs, Epochs)

SpecRows == InitRows /\ [][Next]_vars

\* the comparison applied to the hit lists of NormLists
SpecNorm == InitNorm /\ [][Next]_vars

\* a call of map_compare_pair_response(old_data, new_data)
MapPair ==
    /\ pc = "map"
    /\ row' = map_compare_pair_response(old_data, new_data)
    /\ pc' = IF row'.k = "raise" THEN "map_raised" ELSE "map_done"
    /\ UNCHANGED <<hits, startTime, endTime, exc, valid_data, warnings, start_commit,
                   end_commit, data_groups, all_combinations, result, output,
                   old_data, new_data, apiVars, svcVars>>

NextMap == MapPair

SpecMap == InitMap /\ [][NextMap]_vars

(***************************************************************************)
(* Calls of check_input_params and of build_es_query                       *)
(***************************************************************************)
InitParams ==
    /\ IdlePipe
    /\ IdleSvc
    /\ pc = "check"
    /\ params \in ParamBags
    /\ checked = NoRow
    /\ query_args = NoParams
    /\ query = NoRow

\* a call of check_input_params(params)
CheckInputParams ==
    /\ pc = "check"
    /\ checked' = check_input_params(params)
    /\ pc' = IF checked'.k = "raise" THEN "check_raised" ELSE "checked"
    /\ UNCHANGED <<params, query_args, query, mapVars, svcVars>>
    /\ UNCHANGED <<hits, startTime, endTime, exc, valid_data, warnings, start_commit,
                   end_commit, data_groups, all_combinations, result, output>>

NextParams == CheckInputParams

SpecParams == InitParams /\ [][NextParams]_vars

InitQuery ==
    /\ IdlePipe
    /\ IdleSvc
    /\ pc = "query"
    /\ params = NoParams
    /\ checked = NoRow
    /\ query_args \in QueryArgs
    /\ query = NoRow

\* a call of build_es_query(model_names, engine_version, start_time, end_time)
BuildEsQuery ==
    /\ pc = "query"
    /\ query' = build_es_query(query_args.model_names, query_args.engine_version,
                               query_args.start_time, query_args.end_time)
    /\ pc' = "query_done"
    /\ UNCHANGED <<params, checked, query_args, mapVars, svcVars>>
    /\ UNCHANGED <<hits, startTime, endTime, exc, valid_data, warnings, start_commit,
                   end_commit, data_groups, all_combinations, result, output>>

NextQuery == BuildEsQuery

SpecQuery == InitQuery /\ [][NextQuery]_vars

(***************************************************************************)
(* The request handler get_server_commits_list of src/app_test.py          *)
(*                                                                         *)
(* A request is the bag of its query-string arguments, each Absent or a    *)
(* str.  es_handler is TRUE when init_es_handler returned a handler.  The  *)
(* calls made on the handler are logged in es_calls; the outcome of a      *)
(* search is the store's choice.  The messages are put in English.         *)
(***************************************************************************)
MaxArg == 200

MaxSize == 10000

\* the integers the numerals of the requests denote
ArgInts == (0..MaxArg) \cup {MaxSize, 2 * MaxSize}

\* int(text)
IntOfText(text) ==
    LET numerals == {n \in ArgInts : ToString(n) = text}
    IN  IF numerals /= {} THEN I(CHOOSE n \in numerals : TRUE)
        ELSE [k |-> "raise", exc |-> "ValueError"]

\* request.args.get(key, type=int): None when the key is missing or its
\* text is no integer
ArgInt(v) ==
    IF v.k = "absent" THEN None
    ELSE IF IntOfText(v.s).k = "raise" THEN None ELSE IntOfText(v.s)

\* request.args.get(key, type=str)
ArgStr(v) == IF v.k = "absent" THEN None ELSE v

\* the params dict of the handler, in the order of its keys
HandlerKeys == <<"startTime", "endTime", "models", "engineVersion">>

HandlerParams(req) ==
    [startTime |-> ArgInt(req.startTime),
     endTime |-> ArgInt(req.endTime),
     models |-> ArgStr(req.models),
     engineVersion |-> ArgInt(req.engineVersion)]

\* [k for k, v in params.items() if v is None]
RECURSIVE missing_params_from(_, _)
missing_params_from(p, i) ==
    IF i > Len(HandlerKeys) THEN <<>>
    ELSE (IF p[HandlerKeys[i]] = None THEN <<HandlerKeys[i]>> ELSE <<>>)
         \o missing_params_from(p, i + 1)

missing_params(p) == missing_params_from(p, 1)

format_error(message) == [success |-> FALSE, data |-> None, message |-> message]

Reply(status, body) == [k |-> "response", status |-> status, body |-> body]

\* the checks without the one of the time range
ParamsRejectedNoRange(p) ==
    IF missing_params(p) /= <<>>
    THEN Reply(400, format_error("missing required parameters: "
                                 \o Join(missing_params(p), ",")))
    ELSE IF p.engineVersion.v \notin {0, 1, 2}
    THEN Reply(400, format_error("engineVersion invalid: " \o ToString(p.engineVersion.v)
                                 \o ", only 0/1/2"))
    ELSE IF Strip(p.models.s) = ""
    THEN Reply(400, format_error("models must not be empty"))
    ELSE NoRow

\* the answer the checks of the handler give, or NoRow when they all pass
ParamsRejected(p) ==
    IF missing_params(p) /= <<>>
    THEN Reply(400, format_error("missing required parameters: "
                                 \o Join(missing_params(p), ",")))
    ELSE IF p.engineVersion.v \notin {0, 1, 2}
    THEN Reply(400, format_error("engineVersion invalid: " \o ToString(p.engineVersion.v)
                                 \o ", only 0/1/2"))
    ELSE IF p.startTime.v > p.endTime.v
    THEN Reply(400, format_error("time range invalid: startTime("
                                 \o ToString(p.startTime.v) \o ") > endTime("
                                 \o ToString(p.endTime.v) \o ")"))
    ELSE IF Strip(p.models.s) = ""
    THEN Reply(400, format_error("models must not be empty"))
    ELSE NoRow

\* build_es_query of src/app_test.py
AppModelClause(model_name) ==
    IF Truthy(model_name)
    THEN <<[k |-> "match", field |-> "source.model_name", value |-> model_name]>>
    ELSE <<>>

AppEngineClause(engine_version) ==
    IF Truthy(engine_version)
    THEN <<[k |-> "match", field |-> "source.engine_version", value |-> engine_version]>>
    ELSE <<>>

AppRangeClause(start_time, end_time) ==
    IF Truthy(start_time) \/ Truthy(end_time)
    THEN <<[k |-> "range", field |-> "source.created_at",
            gte |-> IF Truthy(start_time) THEN StrfTime(start_time) ELSE Absent,
            lte |-> IF Truthy(end_time) THEN StrfTime(end_time) ELSE Absent]>>
    ELSE <<>>

app_build_es_query(model_name, engine_version, start_time, end_time) ==
    LET must == AppModelClause(model_name) \o AppEngineClause(engine_version)
                \o AppRangeClause(start_time, end_time)
    IN  IF must /= <<>> THEN [k |-> "bool", must |-> must] ELSE [k |-> "match_all"]

\* the es_query the handler builds for its params
EsQueryOf(p) ==
    app_build_es_query(IF Strip(p.models.s) = "all" THEN None ELSE S(Strip(p.models.s)),
                       S(ToString(p.engineVersion.v)), p.startTime, p.endTime)

\* min(int(request.args.get("size", 10000)), 10000)
SizeOf(req) ==
    LET n == IF req.size.k = "absent" THEN I(MaxSize) ELSE IntOfText(req.size.s)
    IN  IF n.k = "raise" THEN n
        ELSE IF n.v < MaxSize THEN n ELSE I(MaxSize)

\* the entry of a search in the log of calls, with what came of it
SearchCall(query_, size, outcome) ==
    [op |-> "search", query |-> query_, size |-> size,
     outcome |-> IF outcome.k = "hits" THEN "returned" ELSE outcome.exc]

\* the fields of a source record the handler asks for
required_source_fields == {"model_name", "sglang_branch", "device", "commit_id", "created_at"}

\* the first loop over the hits: the source records with all the fields, or
\* a TypeError when a source is None
RECURSIVE ValidRecords(_)
ValidRecords(hs) ==
    IF hs = <<>> THEN [st |-> "ok", records |-> <<>>]
    ELSE LET rest == ValidRecords(Tail(hs))
         IN  IF hs[1] = None THEN [st |-> "raise", exc |-> "TypeError"]
             ELSE IF rest.st = "raise" THEN rest
             ELSE IF \A field \in required_source_fields : hs[1][field] /= Absent
             THEN [st |-> "ok", records |-> <<hs[1]>> \o rest.records]
             ELSE rest

\* the second loop: the records whose created_at has the format, renamed
\* and with their time stamp
RECURSIVE ProcessedRecords(_)
ProcessedRecords(records) ==
    IF records = <<>> THEN <<>>
    ELSE IF StrptimeOk(records[1].created_at)
    THEN <<[model_name |-> records[1].model_name,
            branch |-> records[1].sglang_branch,
            device |-> records[1].device,
            hash |-> records[1].commit_id,
            time |-> I(Timestamp(records[1].created_at))]>>
         \o ProcessedRecords(Tail(records))
    ELSE ProcessedRecords(Tail(records))

\* the third loop: the records of each model in the order they came in,
\* without a second record of the same hash and time
Entry(record) ==
    [branch |-> record.branch, device |-> record.device, hash |-> record.hash,
     time |-> record.time]

RECURSIVE CommitList(_, _)
CommitList(records, model) ==
    IF records = <<>> THEN <<>>
    ELSE LET front == CommitList(SubSeq(records, 1, Len(records) - 1), model)
             last == records[Len(records)]
         IN  IF last.model_name /= model THEN front
             ELSE IF \E i \in 1..Len(front) :
                        front[i].hash = last.hash /\ front[i].time = last.time
             THEN front
             ELSE Append(front, Entry(last))

\* a value that cannot be the key of a dict: "model not in commit_result"
\* raises TypeError for it
Unhashable(v) == v.k = "list"

CommitResult(records) ==
    [model \in {records[i].model_name : i \in 1..Len(records)} |->
        CommitList(records, model)]

\* what the store does with a search: it answers with a hit list, or the
\* client raises
SearchFailures == {"ConnectionError", "RequestError", "Exception"}

SourceRecord(model_name, device, commit_id, created_at) ==
    [model_name |-> model_name, sglang_branch |-> S("main"), device |-> device,
     commit_id |-> commit_id, created_at |-> created_at]

SourceRecords ==
    {SourceRecord(S("Qwen3-8B"), S("NPU"), S("c1"), MergedAt(100)),
     SourceRecord(S("Qwen3-8B"), S("NPU"), S("c2"), MergedAt(300)),
     SourceRecord(S("Llama3-7B"), S("NPU"), S("c1"), MergedAt(100)),
     SourceRecord(S("Qwen3-8B"), Absent, S("c1"), MergedAt(100)),
     SourceRecord(S("Qwen3-8B"), S("NPU"), S("c1"), S("yesterday")),
     SourceRecord(Absent, Absent, Absent, Absent)}

MaxSources == 2

WellFormedReplies == UNION {[1..n -> SourceRecords] : n \in 0..MaxSources}

\* a hit whose "source" is null, alone or behind a record
NullSourceReplies == {<<None>>} \cup {<<r, None>> : r \in SourceRecords}

\* a record whose model_name is a JSON array, alone or behind a record
ArrayNameRecord ==
    SourceRecord([k |-> "list", v |-> <<"Qwen3-8B">>], S("NPU"), S("c1"), MergedAt(100))

ArrayNameReplies == {<<ArrayNameRecord>>} \cup {<<r, ArrayNameRecord>> : r \in SourceRecords}

SearchReplies == WellFormedReplies \cup NullSourceReplies \cup ArrayNameReplies

SearchOutcomes ==
    {[k |-> "hits", hits |-> hs] : hs \in SearchReplies}
    \cup {[k |-> "raise", exc |-> e] : e \in SearchFailures}

\* the answer to a search that returned the hits hs
AnswerHits(hs) ==
    LET valid_records == ValidRecords(hs)
        processed_records == ProcessedRecords(valid_records.records)
    IN  IF valid_records.st = "raise"
        THEN Reply(500, format_error("internal error: " \o valid_records.exc))
        ELSE IF \E i \in 1..Len(processed_records) : Unhashable(processed_records[i].model_name)
        THEN Reply(500, format_error("internal error: TypeError"))
        ELSE Reply(200, CommitResult(processed_records))

\* the answer to a search the client raised from
AnswerFailure(e) ==
    IF e = "RequestError"
    THEN Reply(500, format_error("data query failed: " \o e))
    ELSE Reply(500, format_error("internal error: " \o e))

Requests ==
    [startTime : {Absent, S("0"), S("100"), S("200"), S("abc")},
     endTime : {Absent, S("100"), S("200")},
     models : {Absent, S(""), S(" "), S("all"), S(" Qwen3-8B "), S(",,")},
     engineVersion : {Absent, S("0"), S("2"), S("5"), S("x")},
     size : {Absent, S("100"), S("20000"), S("abc")}]

InitHandler ==
    /\ IdlePipe
    /\ IdleApi
    /\ IdleES
    /\ IdleDP
    /\ pc = "request"
    /\ request \in Requests
    /\ es_handler \in BOOLEAN
    /\ es_calls = <<>>
    /\ response = NoRow

\* a request to /server/commits/list is handled
GetServerCommitsList ==
    /\ pc = "request"
    /\ pc' = "responded"
    /\ LET p == HandlerParams(request)
       IN  IF ~es_handler
           THEN /\ response' = Reply(500, format_error("ES connection not ready"))
                /\ es_calls' = es_calls
           ELSE IF ParamsRejected(p) /= NoRow
           THEN /\ response' = ParamsRejected(p)
                /\ es_calls' = es_calls
           ELSE IF SizeOf(request).k = "raise"
           THEN /\ response' = Reply(400, format_error("parameter error: ValueError"))
                /\ es_calls' = es_calls
           ELSE \E outcome \in SearchOutcomes :
                    /\ es_calls' = Append(es_calls, SearchCall(EsQueryOf(p), SizeOf(request),
                                                               outcome))
                    /\ response' = IF outcome.k = "hits" THEN AnswerHits(outcome.hits)
                                   ELSE AnswerFailure(outcome.exc)
    /\ UNCHANGED <<request, es_handler, mapVars, apiVars, esVars, dpVars>>
    /\ UNCHANGED <<hits, startTime, endTime, exc, valid_data, warnings, start_commit,
                   end_commit, data_groups, all_combinations, result, output>>

NextHandler == GetServerCommitsList

SpecHandler == InitHandler /\ [][NextHandler]_vars

(***************************************************************************)
(* ESHandler of src/es_command/es_operation.py                             *)
(*                                                                         *)
(* The threads of Threads call create_index, add_data, update_data and     *)
(* delete_data on one handler, each thread once, for one index and one     *)
(* doc_id.  A step is one call of the store client or the taking of        *)
(* self.lock; the lock is given back in the step in which the call leaves  *)
(* its "with" block, by a return or by an exception.  The store answers    *)
(* 400 (RequestError) to the document requests of a call whose arguments   *)
(* it rejects, and to the creation of an index that exists; any client     *)
(* call can fail with a ConnectionError, which no method catches.          *)
(***************************************************************************)
MaxThreads == 2

Threads == 1..MaxThreads

Operations == {"create_index", "add_data", "update_data", "delete_data"}

Locked == {"add_data", "update_data", "delete_data"}

NoCall == [pc |-> "idle", op |-> "none", bad |-> FALSE, inner |-> FALSE, ret |-> "none"]

\* the lock can be taken
CanAcquireAlways(holder) == TRUE

CanAcquire(holder) == holder = 0

\* the document thread t writes
DataOf(t) == S("data" \o ToString(t))

\* the call of thread t goes to the place pc
Goto(t, place) == calls' = [calls EXCEPT ![t].pc = place]

\* the call of thread t returns v out of its method: create_index called by
\* add_data makes add_data return False when it returns False, and lets it
\* go on when it returns True
Leave(t, v) ==
    /\ calls' = [calls EXCEPT ![t].pc = "done", ![t].ret = v]
    /\ lock' = IF calls[t].op \in Locked THEN 0 ELSE lock

\* an exception leaves the method of thread t and the lock stays taken
PropagateHolding(t) ==
    /\ calls' = [calls EXCEPT ![t].pc = "raised", ![t].ret = "raised"]
    /\ lock' = lock

\* an exception leaves the method of thread t
Propagate(t) ==
    /\ calls' = [calls EXCEPT ![t].pc = "raised", ![t].ret = "raised"]
    /\ lock' = IF calls[t].op \in Locked THEN 0 ELSE lock

\* the variables no method of the handler touches
esUnchanged ==
    /\ UNCHANGED <<mapVars, apiVars, handlerVars, dpVars, pc>>
    /\ UNCHANGED <<hits, startTime, endTime, exc, valid_data, warnings, start_commit,
                   end_commit, data_groups, all_combinations, result, output>>

InitES ==
    /\ IdlePipe
    /\ IdleApi
    /\ IdleHandler
    /\ IdleDP
    /\ pc = "threads"
    /\ lock = 0
    /\ es_index \in BOOLEAN
    /\ es_doc \in (IF es_index THEN {Absent, S("data0")} ELSE {Absent})
    /\ calls = [t \in Threads |-> NoCall]
    /\ es_writes = {}

\* thread t calls a method of the handler
StartCall(t) ==
    /\ esUnchanged
    /\ calls[t].pc = "idle"
    /\ \E op \in Operations, bad \in BOOLEAN :
          calls' = [calls EXCEPT ![t] = [pc |-> IF op = "create_index" THEN "ci_exists"
                                                ELSE "acquire",
                                         op |-> op, bad |-> bad, inner |-> FALSE,
                                         ret |-> "none"]]
    /\ UNCHANGED <<lock, es_index, es_doc, es_writes>>

\* "with self.lock:"
Acquire(t) ==
    /\ esUnchanged
    /\ calls[t].pc = "acquire"
    /\ CanAcquire(lock)
    /\ lock' = t
    /\ Goto(t, IF calls[t].op = "add_data" THEN "index_exists" ELSE "check_id")
    /\ UNCHANGED <<es_index, es_doc, es_writes>>

\* add_data: "if not self.es.indices.exists(index=index_name)"
AddIndexExists(t) ==
    /\ esUnchanged
    /\ calls[t].pc = "index_exists"
    /\ \/ /\ IF es_index THEN Goto(t, "check_id")
             ELSE calls' = [calls EXCEPT ![t].pc = "ci_exists", ![t].inner = TRUE]
          /\ lock' = lock
       \/ Propagate(t)
    /\ UNCHANGED <<es_index, es_doc, es_writes>>

\* create_index: "if self.es.indices.exists(index=index_name): return False"
CreateIndexExists(t) ==
    /\ esUnchanged
    /\ calls[t].pc = "ci_exists"
    /\ \/ IF es_index THEN Leave(t, "False")
          ELSE Goto(t, "ci_create") /\ lock' = lock
       \/ Propagate(t)
    /\ UNCHANGED <<es_index, es_doc, es_writes>>

\* create_index: self.es.indices.create
CreateIndexCreate(t) ==
    /\ esUnchanged
    /\ calls[t].pc = "ci_create"
    /\ \/ /\ ~es_index
          /\ es_index' = TRUE
          /\ es_writes' = es_writes \cup {[t |-> t, op |-> "create_index", over |-> FALSE]}
          /\ IF calls[t].inner THEN Goto(t, "check_id") /\ lock' = lock
             ELSE Leave(t, "True")
       \/ /\ Leave(t, "False")
          /\ UNCHANGED <<es_index, es_writes>>
       \/ /\ Propagate(t)
          /\ UNCHANGED <<es_index, es_writes>>
    /\ UNCHANGED es_doc

\* check_id_exists: self.es.exists, False on a RequestError
CheckIdExists(t) ==
    /\ esUnchanged
    /\ calls[t].pc = "check_id"
    /\ \/ /\ ~calls[t].bad
          /\ IF (es_doc /= Absent) = (calls[t].op = "add_data")
             THEN Leave(t, "False")
             ELSE Goto(t, "write") /\ lock' = lock
       \/ /\ calls[t].bad
          /\ IF calls[t].op = "add_data" THEN Goto(t, "write") /\ lock' = lock
             ELSE Leave(t, "False")
       \/ Propagate(t)
    /\ UNCHANGED <<es_index, es_doc, es_writes>>

\* the result the store gives to the write of an operation
ResultOf(op, doc) ==
    CASE op = "add_data" -> IF doc = Absent THEN "created" ELSE "updated"
      [] op = "update_data" -> "updated"
      [] op = "delete_data" -> "deleted"

\* the results a method answers True to
Accepted(op) ==
    CASE op = "add_data" -> {"created"}
      [] op = "update_data" -> {"updated", "noop"}
      [] op = "delete_data" -> {"deleted"}

\* self.es.index, self.es.update or self.es.delete, and the return
Write(t) ==
    /\ esUnchanged
    /\ calls[t].pc = "write"
    /\ \/ /\ ~calls[t].bad
          /\ calls[t].op \in {"update_data", "delete_data"} => es_doc /= Absent
          /\ es_doc' = CASE calls[t].op = "add_data" -> DataOf(t)
                         [] calls[t].op = "update_data" -> DataOf(t)
                         [] calls[t].op = "delete_data" -> Absent
          /\ es_index' = es_index
          /\ es_writes' = es_writes \cup {[t |-> t, op |-> calls[t].op,
                                          over |-> es_doc /= Absent]}
          /\ Leave(t, IF ResultOf(calls[t].op, es_doc) \in Accepted(calls[t].op)
                      THEN "True" ELSE "False")
       \/ /\ calls[t].bad
          /\ Leave(t, "False")
          /\ UNCHANGED <<es_index, es_doc, es_writes>>
       \/ /\ Propagate(t)
          /\ UNCHANGED <<es_index, es_doc, es_writes>>

NextES ==
    \E t \in Threads :
        \/ StartCall(t)
        \/ Acquire(t)
        \/ AddIndexExists(t)
        \/ CreateIndexExists(t)
        \/ CreateIndexCreate(t)
        \/ CheckIdExists(t)
        \/ Write(t)

SpecES == InitES /\ [][NextES]_vars

\* the steps of the call thread t is in
CallStep(t) ==
    \/ Acquire(t)
    \/ AddIndexExists(t)
    \/ CreateIndexExists(t)
    \/ CreateIndexCreate(t)
    \/ CheckIdExists(t)
    \/ Write(t)

\* the calls under a scheduler that runs every thread that can take a step,
\* with a store client whose calls all end; whether a thread makes a call at
\* all is left to its caller
SpecESFair == SpecES /\ \A t \in Threads : WF_vars(CallStep(t))

(***************************************************************************)
(* generate_metrics_data and ensure_unique_id of                           *)
(* src/data/data_processor.py                                              *)
(*                                                                         *)
(* todo holds the commit directories of the date that are still to be      *)
(* visited, each with the model directories left in it.  A step is one     *)
(* round of the loop over the models, or the visit of a commit directory   *)
(* without models.  What the files of an item hold is read in its round:   *)
(* the commit_id of its PR file, which with the model name makes the ID.   *)
(***************************************************************************)
MaxCommits == 2

MaxModels == 2

CommitDirs == [i \in 1..MaxCommits |-> "dir" \o ToString(i)]

ModelDirs == [i \in 1..MaxModels |-> "model" \o ToString(i)]

\* the commit_id values the PR files hold
PrCommits == {"c1", "c2"}

\* create_metrics_data: {"ID": f"{commit_id}_{model_name}", "source": ...}
create_metrics_data(commit_dir, model_name, pr_commit) ==
    [ID |-> pr_commit \o "_" \o model_name,
     source |-> [commit_id |-> pr_commit, model_name |-> model_name, dir |-> commit_dir]]

\* an ensure_unique_id that appends whatever the ID
ensure_unique_id_always(target_list, new_item, existing_ids) ==
    [k |-> "result", ret |-> TRUE, target_list |-> Append(target_list, new_item),
     existing_ids |-> existing_ids \cup {new_item.ID}]

\* ensure_unique_id(target_list, new_item, existing_ids): what it returns and
\* what it leaves in the list and in the set, or the ValueError it raises
ensure_unique_id(target_list, new_item, existing_ids) ==
    IF new_item.ID = "" THEN [k |-> "raise", exc |-> "ValueError"]
    ELSE IF new_item.ID \in existing_ids
    THEN [k |-> "result", ret |-> FALSE, target_list |-> target_list,
          existing_ids |-> existing_ids]
    ELSE [k |-> "result", ret |-> TRUE, target_list |-> Append(target_list, new_item),
          existing_ids |-> existing_ids \cup {new_item.ID}]

\* the directories of a date: up to MaxCommits commit directories with up
\* to MaxModels model directories each
Todos ==
    UNION {{[i \in 1..n |-> [commit_id |-> CommitDirs[i],
                              model_names |-> SubSeq(ModelDirs, 1, counts[i])]] :
                counts \in [1..n -> 0..MaxModels]} : n \in 0..MaxCommits}

InitIngest ==
    /\ IdlePipe
    /\ IdleApi
    /\ IdleHandler
    /\ IdleES
    /\ pc = "ingest"
    /\ todo \in Todos
    /\ total_data = <<>>
    /\ total_existing_ids = {}
    /\ commit_id_grouped = [c \in {} |-> <<>>]
    /\ commit_existing_ids = [c \in {} |-> {}]
    /\ date_grouped = <<>>
    /\ date_existing_ids = {}
    /\ model_commit_pairs = {}
    /\ all_valid_metrics = <<>>

dpUnchanged ==
    /\ UNCHANGED <<mapVars, apiVars, handlerVars, esVars>>
    /\ UNCHANGED <<hits, startTime, endTime, exc, valid_data, warnings, start_commit,
                   end_commit, data_groups, all_combinations, result, output>>

\* defaultdict: the value under a key, made on the first read
Group(groups, key, empty) == IF key \in DOMAIN groups THEN groups[key] ELSE empty

Put(groups, key, value) ==
    [c \in DOMAIN groups \cup {key} |-> IF c = key THEN value ELSE groups[c]]

\* the commit directories left once the first model of the first one is done
Rest(queue) ==
    IF Len(queue[1].model_names) <= 1 THEN Tail(queue)
    ELSE <<[queue[1] EXCEPT !.model_names = Tail(@)]>> \o Tail(queue)

\* "if not model_names: commit_id_grouped[commit_id] = []; continue"
CommitWithoutModels ==
    /\ dpUnchanged
    /\ pc = "ingest"
    /\ todo /= <<>>
    /\ todo[1].model_names = <<>>
    /\ commit_id_grouped' = Put(commit_id_grouped, todo[1].commit_id, <<>>)
    /\ todo' = Tail(todo)
    /\ UNCHANGED <<pc, total_data, total_existing_ids, commit_existing_ids, date_grouped,
                   date_existing_ids, model_commit_pairs, all_valid_metrics>>

\* a round that is left by "continue" before the data are collected: the
\* files are missing, or the making or the writing of the data raises
SkipModel ==
    /\ dpUnchanged
    /\ pc = "ingest"
    /\ todo /= <<>>
    /\ todo[1].model_names /= <<>>
    /\ todo' = Rest(todo)
    /\ UNCHANGED <<pc, total_data, total_existing_ids, commit_id_grouped, commit_existing_ids,
                   date_grouped, date_existing_ids, model_commit_pairs, all_valid_metrics>>

\* a round that makes its data and collects them in the total list, the
\* group of the commit and the group of the date
CollectModel ==
    /\ dpUnchanged
    /\ pc = "ingest"
    /\ todo /= <<>>
    /\ todo[1].model_names /= <<>>
    /\ LET commit_id == todo[1].commit_id
           model_name == todo[1].model_names[1]
           pair_key == model_name \o "@" \o commit_id
       IN  /\ pair_key \notin model_commit_pairs
           /\ \E pr_commit \in PrCommits :
                LET current_data == create_metrics_data(commit_id, model_name, pr_commit)
                    total == ensure_unique_id(total_data, current_data, total_existing_ids)
                    commit == ensure_unique_id(Group(commit_id_grouped, commit_id, <<>>),
                                               current_data,
                                               Group(commit_existing_ids, commit_id, {}))
                    date == ensure_unique_id(date_grouped, current_data, date_existing_ids)
                IN  /\ total_data' = total.target_list
                    /\ total_existing_ids' = total.existing_ids
                    /\ IF total.ret
                       THEN /\ commit_id_grouped' =
                                  Put(commit_id_grouped, commit_id, commit.target_list)
                            /\ commit_existing_ids' =
                                  Put(commit_existing_ids, commit_id, commit.existing_ids)
                       ELSE UNCHANGED <<commit_id_grouped, commit_existing_ids>>
                    /\ IF total.ret /\ commit.ret
                       THEN /\ date_grouped' = date.target_list
                            /\ date_existing_ids' = date.existing_ids
                       ELSE UNCHANGED <<date_grouped, date_existing_ids>>
                    /\ model_commit_pairs' = model_commit_pairs \cup {pair_key}
                    /\ all_valid_metrics' = Append(all_valid_metrics, current_data)
    /\ todo' = Rest(todo)
    /\ pc' = pc

\* every commit directory is visited: the lists are written out and
\* all_valid_metrics is returned
FinishIngest ==
    /\ dpUnchanged
    /\ pc = "ingest"
    /\ todo = <<>>
    /\ pc' = "ingested"
    /\ UNCHANGED dpVars

NextIngest ==
    \/ CommitWithoutModels
    \/ SkipModel
    \/ CollectModel
    \/ FinishIngest

SpecIngest == InitIngest /\ [][NextIngest]_vars

(***************************************************************************)
(* The calls a request is served with: check_input_params, build_es_query, *)
(* process_data_details_compare_response and the handler with its search   *)
(***************************************************************************)
InitRequests == InitNorm \/ InitParams \/ InitQuery \/ InitHandler

NextRequests == Next \/ NextParams \/ NextQuery \/ NextHandler

SpecRequests == InitRequests /\ [][NextRequests]_vars

(***************************************************************************)
(* Properties of the comparison runs                                       *)
(***************************************************************************)
ValidIdx == 1..Len(valid_data)

Resolved == pc \in {"grouped", "paired", "done"} /\ valid_data /= <<>>

Done == pc = "done" /\ valid_data /= <<>>

\* the text left and right of the arrow of a paired field
ArrowAt(text) == CHOOSE i \in 1..(Len(text) - 1) : SubSeq(text, i, i + 1) = Arrow

LeftOf(text) == SubSeq(text, 1, ArrowAt(text) - 1)

RightOf(text) == SubSeq(text, ArrowAt(text) + 2, Len(text))

\* what a record of valid_data is to show in a paired field
Shown(i, field) ==
    LET val == valid_data[i].f[SourceKey(field)]
    IN  IF val.k \notin {"int", "float"} THEN "null"
        ELSE IF field = "latency_s" THEN Format2f(10 * RoundDiv(Milli(val), 10000))
        ELSE Format2f(Milli(val))

\* the valid records of a combination under a commit
RecordsOf(model, rate, commit) ==
    {i \in ValidIdx : /\ valid_data[i].f["model_name"] = model
                      /\ valid_data[i].f["request_rate"] = rate
                      /\ valid_data[i].f["commit_id"] = commit}

\* the combinations of the valid records
ValidCombinations ==
    {<<valid_data[i].f["model_name"], valid_data[i].f["request_rate"]>> : i \in ValidIdx}

\* the rows of the output built for a combination
RowsFor(rows, combo) ==
    {r \in 1..Len(rows) : rows[r].f["name"] = combo[1].s /\ rows[r].f["request_rate"] = combo[2]}

\* how far a valid record is from a target
Dist(i, target) ==
    LET d == valid_data[i].f["time_stamp"].v - target IN IF d < 0 THEN -d ELSE d

Nearest(target) == {i \in ValidIdx : \A j \in ValidIdx : Dist(i, target) <= Dist(j, target)}

First(indices) == CHOOSE i \in indices : \A j \in indices : i <= j

\* C1: a combination with a valid record under the start commit and one under
\* the end commit has exactly one row, and every paired field of the row is
\* old->new, old from a start-commit record and new from an end-commit record
\* (latency_s being mean_e2el_ms / 1000)
C1_PairedRow ==
    Done =>
        \A combo \in ValidCombinations :
            LET olds == RecordsOf(combo[1], combo[2], start_commit)
                news == RecordsOf(combo[1], combo[2], end_commit)
            IN  (olds /= {} /\ news /= {}) =>
                    /\ Cardinality(RowsFor(output, combo)) = 1
                    /\ \A r \in RowsFor(output, combo) :
                        \E o \in olds, n \in news :
                            \A field \in PairFields :
                                output[r].f[field] = Shown(o, field) \o Arrow \o Shown(n, field)

\* the example of C1: c1 with mean_e2el_ms 1000 at the start time, c2 with
\* 2000 at the end time, one row with latency_s 1.00->2.00
C1_Witness ==
    /\ pc = "done"
    /\ Len(hits) = 2
    /\ startTime = 100 /\ endTime = 300
    /\ start_commit = S("c1") /\ end_commit = S("c2")
    /\ Len(output) = 1
    /\ output[1].f["name"] = "Qwen3-8B" /\ output[1].f["request_rate"] = I(2)
    /\ output[1].f["latency_s"] = "1.00->2.00"

\* C2: with startTime = endTime the end commit is the start commit and every
\* row is a self-pair showing the value of a record of that commit
C2_SelfPair ==
    (Resolved /\ startTime = endTime) =>
        /\ end_commit = start_commit
        /\ pc = "done" =>
            \A r \in 1..Len(output) : \A field \in PairFields :
                /\ LeftOf(output[r].f[field]) = RightOf(output[r].f[field])
                /\ \E i \in ValidIdx :
                    /\ valid_data[i].f["commit_id"] = start_commit
                    /\ Str(valid_data[i].f["model_name"]) = output[r].f["name"]
                    /\ valid_data[i].f["request_rate"] = output[r].f["request_rate"]
                    /\ LeftOf(output[r].f[field]) = Shown(i, field)

C2_Witness ==
    /\ pc = "done"
    /\ startTime = endTime
    /\ Len(output) = 2
    /\ \E i, j \in ValidIdx : valid_data[i].f["commit_id"] /= valid_data[j].f["commit_id"]
    /\ output[2].f["latency_s"] = "2.00->2.00"

Origin(i) == valid_data[i].f["mean_e2el_ms"].v \div 1000

\* C4: of several valid records at the same least distance the one that
\* comes first in the hit list gives the commit (the valid records being in
\* the order of the hits)
C4_FirstOfTies ==
    Resolved =>
        /\ \A i, j \in ValidIdx : i < j => Origin(i) < Origin(j)
        /\ \A i \in ValidIdx : hits[Origin(i)].f["commit_id"] = valid_data[i].f["commit_id"]
        /\ start_commit = valid_data[First(Nearest(startTime))].f["commit_id"]
        /\ end_commit = valid_data[First(Nearest(endTime))].f["commit_id"]

C4_Witness ==
    /\ Resolved
    /\ startTime /= endTime
    /\ \E i, j \in Nearest(startTime) :
        i < j /\ valid_data[i].f["commit_id"] /= valid_data[j].f["commit_id"]
    /\ \E i, j \in Nearest(endTime) :
        i < j /\ valid_data[i].f["commit_id"] /= valid_data[j].f["commit_id"]

\* the valid records without those that repeat the key of an earlier one
RECURSIVE WithoutLaterDuplicates(_)
WithoutLaterDuplicates(valid) ==
    IF valid = <<>> THEN <<>>
    ELSE LET front == SubSeq(valid, 1, Len(valid) - 1)
             last == valid[Len(valid)]
         IN  IF \E j \in 1..Len(front) : GroupKey(front[j]) = GroupKey(last)
             THEN WithoutLaterDuplicates(front)
             ELSE Append(WithoutLaterDuplicates(front), last)

\* what the stages after commit resolution return for a list of valid
\* records and two commits
RowsOutput(valid, start, end) ==
    LET groups == DataGroups(valid)
        order == CHOOSE o \in Orders(AllCombinations(groups)) : TRUE
    IN  SortedRows(FilterRows(PairRows(groups, order, start, end)))

\* what the stages after the normaliser return for a list of valid records
ResponseOf(valid, target_start, target_end) ==
    LET start == ResolveCommit(valid, target_start)
    IN  RowsOutput(valid, start, ResolveEndCommit(valid, target_start, target_end, start))

\* the text a side of a row is to show for a commit: that of the first valid
\* record of the row's combination under the commit, "null" without one
FirstShown(r, commit, field) ==
    LET records == {i \in ValidIdx :
                        /\ Str(valid_data[i].f["model_name"]) = output[r].f["name"]
                        /\ valid_data[i].f["request_rate"] = output[r].f["request_rate"]
                        /\ valid_data[i].f["commit_id"] = commit}
    IN  IF records = {} THEN "null" ELSE Shown(First(records), field)

\* C7 as claimed: the valid records that repeat the (model_name,
\* request_rate, commit_id) of an earlier one have no effect on the output
C7_LaterDuplicatesNoEffect ==
    Done => output = ResponseOf(WithoutLaterDuplicates(valid_data), startTime, endTime)

\* C7 as amended: each side of a row shows the first valid record of its
\* (model_name, request_rate, commit_id), and with the two resolved commits
\* kept the later duplicates can be removed without a change of the output
C7_FirstWins ==
    Done =>
        /\ output = RowsOutput(WithoutLaterDuplicates(valid_data), start_commit, end_commit)
        /\ \A r \in 1..Len(output) : \A field \in PairFields :
            /\ LeftOf(output[r].f[field]) = FirstShown(r, start_commit, field)
            /\ RightOf(output[r].f[field]) = FirstShown(r, end_commit, field)

C7_Witness ==
    /\ pc = "done"
    /\ Len(valid_data) = 3
    /\ GroupKey(valid_data[1]) = GroupKey(valid_data[3])
    /\ GroupKey(valid_data[1]) /= GroupKey(valid_data[2])
    /\ valid_data[1].f["commit_id"] = start_commit
    /\ start_commit /= end_commit
    /\ \E r \in 1..Len(output) : output[r].f["latency_s"] = "1.00->2.00"

\* a combination with no valid record under the start commit and none under
\* the end commit
NoSide(combo) ==
    /\ RecordsOf(combo[1], combo[2], start_commit) = {}
    /\ RecordsOf(combo[1], combo[2], end_commit) = {}

\* the row of two absent records
AllNull(item) ==
    /\ item.f["name"] = "null"
    /\ item.f["tensor_parallel"] = "null"
    /\ item.f["request_rate"] = None
    /\ item.f["device"] = "null"
    /\ \A field \in PairFields : item.f[field] = "null" \o Arrow \o "null"

\* C8: the pairing stage gives one row to every combination of the valid
\* records, also to one without a record under either commit, whose row of
\* nulls is removed by the filter only; no lookup raises
C8_TotalPairing ==
    /\ pc /= "raised"
    /\ (pc \in {"paired", "done"} /\ valid_data /= <<>>) =>
        /\ Len(result) = Cardinality(ValidCombinations)
        /\ \A combo \in ValidCombinations :
            ~NoSide(combo) => Cardinality(RowsFor(result, combo)) = 1
        /\ Cardinality({r \in 1..Len(result) : AllNull(result[r])})
             = Cardinality({combo \in ValidCombinations : NoSide(combo)})
        /\ pc = "done" =>
            /\ \A r \in 1..Len(output) : ~AllNull(output[r])
            /\ Len(output) = Len(result) - Cardinality({combo \in ValidCombinations : NoSide(combo)})

C8_Witness ==
    /\ pc = "done"
    /\ Len(result) = 3
    /\ Len(output) = 1
    /\ AllNull(result[2])

\* a field that is there and is neither '' nor 'null'
Present(v) == v.k \notin {"absent", "none"} /\ v /= S("") /\ v /= S("null")

\* the time of day a merged_at of 1970-01-01 stands for, in seconds
SecondsOf(merged_at) == merged_at.h * 3600 + merged_at.mi * 60 + merged_at.sec

\* a raw request_rate that stands for the whole number n
Denotes(raw, n) == raw = I(n) \/ raw = F(1000 * n) \/ raw = S(ToString(n))

Normalized == pc \in {"normalized", "grouped", "paired", "done"}

\* C5: every record the normaliser keeps comes from a hit whose model_name,
\* merged_at and commit_id are present and not '' or 'null' and whose tp is a
\* number; its time_stamp is the integer merged_at parses to and its
\* request_rate the integer the raw value stands for (16.0 is kept as 16,
\* 'null' and 16.5 are never kept); the records are kept in the order of the
\* hits; every group key, both resolved commits and every output row come
\* from a kept record
C5_OnlyValidRecords ==
    Normalized =>
        /\ \A i \in ValidIdx :
            LET raw == hits[Origin(i)]
                rec == valid_data[i]
            IN  /\ Origin(i) \in 1..Len(hits)
                /\ raw.k = "dict"
                /\ Present(raw.f["model_name"]) /\ rec.f["model_name"] = raw.f["model_name"]
                /\ Present(raw.f["commit_id"]) /\ rec.f["commit_id"] = raw.f["commit_id"]
                /\ Present(raw.f["merged_at"])
                /\ raw.f["merged_at"].k = "dtstr"
                /\ raw.f["merged_at"].Y = 1970 /\ raw.f["merged_at"].M = 1
                /\ raw.f["merged_at"].D = 1
                /\ rec.f["time_stamp"] = I(SecondsOf(raw.f["merged_at"]))
                /\ raw.f["tp"].k \in {"int", "float", "inf", "nan"}
                /\ rec.f["request_rate"].k = "int"
                /\ Denotes(raw.f["request_rate"], rec.f["request_rate"].v)
                /\ raw.f["request_rate"] \notin {S("null"), F(16500)}
        /\ \A i, j \in ValidIdx : i < j => Origin(i) < Origin(j)
        /\ \A h \in 1..Len(hits) :
            (/\ hits[h].k = "dict"
             /\ hits[h].f["request_rate"] = F(16000)
             /\ hits[h].f["model_name"] = S("Qwen3-8B")
             /\ hits[h].f["merged_at"] = MergedAt(100)
             /\ hits[h].f["commit_id"] = S("c1")
             /\ hits[h].f["tp"] = I(1))
            => \E i \in ValidIdx : Origin(i) = h /\ valid_data[i].f["request_rate"] = I(16)
        /\ Resolved =>
            /\ \E i \in ValidIdx : valid_data[i].f["commit_id"] = start_commit
            /\ \E i \in ValidIdx : valid_data[i].f["commit_id"] = end_commit
            /\ all_combinations = ValidCombinations
        /\ Done =>
            \A r \in 1..Len(output) :
                \E i \in ValidIdx :
                    /\ output[r].f["name"] = valid_data[i].f["model_name"].s
                    /\ output[r].f["request_rate"] = valid_data[i].f["request_rate"]

\* a hit with the request_rate 16.0 is kept as 16 in front of a valid record,
\* and the two are the rows of the output
C5_Witness ==
    /\ pc = "done"
    /\ Len(hits) = 2
    /\ hits[1].k = "dict"
    /\ hits[1].f["request_rate"] = F(16000)
    /\ Len(valid_data) = 2
    /\ valid_data[1].f["request_rate"] = I(16)
    /\ Len(output) = 2

\* C6: the normaliser never raises: whatever the defect of a hit, the call
\* goes on with the remaining hits, every hit being kept or skipped with a
\* warning, and comes to its return
C6_NeverRaises ==
    /\ pc /= "raised"
    /\ pc = "normalized" => Len(valid_data) + Len(warnings) = Len(hits)

\* the value a record holds under a key; a record that is not there holds none
FieldOf(data, key) == IF data.k = "dict" THEN data.f[key] ELSE Absent

IsNumeric(v) == v.k \in {"int", "float"}

\* the text of a number in a paired field
Rendered(val, field) ==
    IF field = "latency_s" THEN Format2f(10 * RoundDiv(Milli(val), 10000))
    ELSE Format2f(Milli(val))

\* the text of one side of a paired field
SideText(data, field) ==
    LET val == FieldOf(data, SourceKey(field))
    IN  IF IsNumeric(val) THEN Rendered(val, field) ELSE "null"

\* C9: in every paired field of the row of map_compare_pair_response, the
\* left of the arrow is 'null' when old_data is not there or its value is
\* absent or not a number, and the number's text otherwise, whatever new_data
\* is; the right of the arrow is the same for new_data; no side is a numeric
\* default
C9_NullSide ==
    pc = "map_done" =>
        \A field \in PairFields :
            /\ LeftOf(row.f[field]) = SideText(old_data, field)
            /\ RightOf(row.f[field]) = SideText(new_data, field)

\* old_data is None and new_data holds numbers: the left sides are 'null',
\* the right sides the numbers of new_data
C9_Witness ==
    /\ pc = "map_done"
    /\ old_data = None
    /\ new_data.k = "dict"
    /\ row.f["latency_s"] = "null" \o Arrow \o "2.00"
    /\ \A field \in PairFields :
        LeftOf(row.f[field]) = "null" /\ RightOf(row.f[field]) /= "null"

\* the identity value that prefers the old side: the old one when it is
\* there, else the new one
PreferPresent(key) ==
    LET old_val == FieldOf(old_data, key)
        new_val == FieldOf(new_data, key)
    IN  IF old_val.k \notin {"absent", "none"} THEN old_val
        ELSE IF new_val.k \notin {"absent", "none"} THEN new_val
        ELSE None

\* the old value when it is a number, else the new one when it is a number
PreferNumeric(key) ==
    LET old_val == FieldOf(old_data, key)
        new_val == FieldOf(new_data, key)
    IN  IF IsNumeric(old_val) THEN old_val
        ELSE IF IsNumeric(new_val) THEN new_val
        ELSE None

\* C10: map_compare_pair_response returns a row whose name and device are
\* the old record's value when present, else the new record's, else 'null';
\* whose tensor_parallel is the text of the old tp when it is a number, else
\* of the new one, else 'null'; and whose request_rate is the integer the old
\* request_rate is when it is a number, else the new one, else None
C10_IdentityFields ==
    pc \in {"map_done", "map_raised"} =>
        /\ row.k = "row"
        /\ \A key \in {"model_name", "device"} :
            LET val == PreferPresent(key)
                field == IF key = "model_name" THEN "name" ELSE key
            IN  row.f[field] = IF val = None THEN "null" ELSE val.s
        /\ LET tp == PreferNumeric("tp")
           IN  row.f["tensor_parallel"] =
                    CASE tp.k = "int" -> ToString(tp.v)
                      [] tp.k = "float" -> Format2f(tp.milli)
                      [] OTHER -> "null"
        /\ LET request_rate == PreferNumeric("request_rate")
           IN  row.f["request_rate"] =
                    CASE request_rate.k = "int" -> request_rate
                      [] request_rate.k = "float" -> I(Trunc(request_rate.milli))
                      [] OTHER -> None

\* a field of a row that holds '', 'null' or None
Sentinel(item, field) ==
    IF field = "request_rate" THEN item.f[field] = None
    ELSE item.f[field] \in {"", "null"}

AllSentinel(item) ==
    Sentinel(item, "name") /\ Sentinel(item, "tensor_parallel") /\ Sentinel(item, "request_rate")

\* C11: no returned row has name, tensor_parallel and request_rate all ''
\* 'null' or None, and the rows returned are the rows of the pairing stage
\* other than those: a row with a valid field among the three is kept
C11_NoAllSentinelRow ==
    pc = "done" =>
        /\ \A r \in 1..Len(output) : ~AllSentinel(output[r])
        /\ \A r \in 1..Len(result) :
            ~AllSentinel(result[r]) => \E q \in 1..Len(output) : output[q] = result[r]
        /\ Len(output) = Cardinality({r \in 1..Len(result) : ~AllSentinel(result[r])})

\* two rows were built, the one of three sentinels is gone and the other
\* is returned
C11_Witness ==
    /\ pc = "done"
    /\ Len(result) = 2
    /\ AllSentinel(result[1])
    /\ output = <<result[2]>>

\* the number a tensor_parallel text stands for, in hundredths
TensorParallelOf(item) ==
    LET text == item.f["tensor_parallel"]
        whole == {n \in 0..MaxNumeral : ToString(n) = text}
    IN  IF whole /= {} THEN 100 * (CHOOSE n \in whole : TRUE)
        ELSE CHOOSE c \in 0..MaxCenti : Format2f(10 * c) = text

\* the key of the first row is not greater than the key of the second
KeyNotGreater(a, b) ==
    \/ StrLess(a.f["name"], b.f["name"])
    \/ /\ a.f["name"] = b.f["name"]
       /\ \/ TensorParallelOf(a) < TensorParallelOf(b)
          \/ /\ TensorParallelOf(a) = TensorParallelOf(b)
             /\ a.f["request_rate"].v <= b.f["request_rate"].v

\* C12: the returned rows ascend in (name, tensor_parallel, request_rate),
\* the name compared as a string, the other two as numbers
C12_SortedOutput ==
    pc = "done" =>
        \A r \in 1..(Len(output) - 1) : KeyNotGreater(output[r], output[r + 1])

\* two rows of one name and one tensor_parallel were built with the
\* request_rate 16 first and are returned with the request_rate 2 first
C12_Witness ==
    /\ pc = "done"
    /\ Len(result) = 2 /\ Len(output) = 2
    /\ result[1].f["name"] = result[2].f["name"]
    /\ result[1].f["tensor_parallel"] = result[2].f["tensor_parallel"]
    /\ result[1].f["request_rate"] = I(16) /\ result[2].f["request_rate"] = I(2)
    /\ output[1].f["request_rate"] = I(2) /\ output[2].f["request_rate"] = I(16)

\* the device a row is to show: that of the first valid record of its
\* combination under the start commit, else under the end commit, else 'null'
DeviceShown(r) ==
    LET under(commit) == {i \in ValidIdx :
                            /\ Str(valid_data[i].f["model_name"]) = output[r].f["name"]
                            /\ valid_data[i].f["request_rate"] = output[r].f["request_rate"]
                            /\ valid_data[i].f["commit_id"] = commit}
        device(records) == IF records = {} THEN Absent
                           ELSE valid_data[First(records)].f["device"]
        old_val == device(under(start_commit))
        new_val == device(under(end_commit))
    IN  IF old_val.k \notin {"absent", "none"} THEN old_val.s
        ELSE IF new_val.k \notin {"absent", "none"} THEN new_val.s
        ELSE "null"

\* C13 as claimed: no returned row has '', 'null' or None in name,
\* tensor_parallel, request_rate or device
C13_NonEmptyIdentity ==
    pc = "done" =>
        \A r \in 1..Len(output) : \A field \in IdentityFields : ~Sentinel(output[r], field)

\* C13 as amended: no returned row has '', 'null' or None in name,
\* tensor_parallel or request_rate; its device is the device of the start
\* record, else of the end record, and 'null' when neither record has one
C13_IdentityButDevice ==
    pc = "done" =>
        \A r \in 1..Len(output) :
            /\ \A field \in {"name", "tensor_parallel", "request_rate"} :
                ~Sentinel(output[r], field)
            /\ output[r].f["device"] = DeviceShown(r)

\* a row is returned with its name and the device 'null', its start record
\* having no device and its end record having one being of no use to it
C13_Witness ==
    /\ pc = "done"
    /\ Len(output) = 2
    /\ output[1].f["device"] = "null" /\ output[1].f["name"] = "Llama3-7B"
    /\ output[2].f["device"] = "dev1"

\* C14: the output is a function of the hit list, startTime and endTime:
\* whatever order the combinations are iterated in, the rows returned are
\* the same rows in the same order
C14_Deterministic ==
    pc = "done" /\ valid_data /= <<>> =>
        /\ valid_data = Normalize(hits).valid
        /\ start_commit = ResolveCommit(valid_data, startTime)
        /\ end_commit = ResolveEndCommit(valid_data, startTime, endTime, start_commit)
        /\ \A order \in Orders(AllCombinations(DataGroups(valid_data))) :
            output = SortedRows(FilterRows(PairRows(DataGroups(valid_data), order,
                                                    start_commit, end_commit)))

\* three combinations were iterated in an order that is not the order of
\* the rows returned
C14_Witness ==
    /\ pc = "done"
    /\ Len(result) = 3 /\ Len(output) = 3
    /\ result[1] = output[3]
    /\ result[3] = output[1]

\* word occurs in text
Contains(text, word) ==
    \E i \in 1..(Len(text) - Len(word) + 1) : SubSeq(text, i, i + Len(word) - 1) = word

\* a call of check_input_params has come to its end, by a return or a raise
Checked == pc \in {"checked", "check_raised"}

\* the call has returned a failure: False, a message, no parameters
Failed == checked.k = "result" /\ ~checked.valid /\ checked.processed_params = None

\* the call has returned a success
Succeeded == checked.k = "result" /\ checked.valid /\ checked.err_msg = ""

\* the required keys that are absent from params or None
MissingKeys ==
    {key \in {"startTime", "endTime", "models", "engineVersion"} :
        params[key].k \in {"absent", "none"}}

\* C15: when one of startTime, endTime, models, engineVersion is absent or
\* None the call returns a failure whose message names the keys that are
\* absent or None and no other required key
C15_MissingNamed ==
    (Checked /\ MissingKeys /= {}) =>
        /\ Failed
        /\ \A key \in {"startTime", "endTime", "models", "engineVersion"} :
            Contains(checked.err_msg, key) <=> key \in MissingKeys

\* startTime is None and models is absent: the message names the two
C15_Witness ==
    /\ pc = "checked"
    /\ params.startTime = None /\ params.models = Absent
    /\ params.endTime = I(200) /\ params.engineVersion = I(0)
    /\ checked.err_msg = "missing required parameters: startTime,models"
    /\ ~checked.valid

\* the text of models has a part between its commas that is not blank
HasModel(text) == \E i \in 1..Len(text) : SubSeq(text, i, i) \notin {" ", ","}

\* params is valid but for its size
ValidButSize ==
    /\ MissingKeys = {}
    /\ HasModel(params.models.s)
    /\ params.engineVersion \in {I(0), I(1), I(2)}
    /\ params.startTime.v <= params.endTime.v

\* C16: the size of every success is at most 10000; it is 10000 when params
\* has no size or the size None, and 10000 when the size asked for is above
\* 10000
C16_SizeCapped ==
    Checked =>
        /\ Succeeded => checked.processed_params.size.v <= 10000
        /\ (ValidButSize /\ params.size \in {Absent, None}) =>
            Succeeded /\ checked.processed_params.size = I(10000)
        /\ (ValidButSize /\ params.size.k = "int" /\ params.size.v > 10000) =>
            Succeeded /\ checked.processed_params.size = I(10000)

\* C17: with the required keys there and a model in models, the call
\* succeeds only with an engineVersion of 0, 1 or 2, and with any other it
\* returns a failure whose message names engineVersion
C17_EngineVersion ==
    (Checked /\ MissingKeys = {} /\ HasModel(params.models.s)) =>
        /\ Succeeded => params.engineVersion \in {I(0), I(1), I(2)}
        /\ params.engineVersion \notin {I(0), I(1), I(2)} =>
            Failed /\ Contains(checked.err_msg, "engineVersion")

\* C18: with the other parameters valid, the call returns the failure of
\* the time range exactly when startTime > endTime, and succeeds when
\* startTime = endTime or startTime < endTime
C18_TimeRange ==
    (/\ Checked
     /\ MissingKeys = {}
     /\ HasModel(params.models.s)
     /\ params.engineVersion \in {I(0), I(1), I(2)}) =>
        IF params.startTime.v > params.endTime.v
        THEN Failed /\ Contains(checked.err_msg, "time range")
        ELSE Succeeded

\* the characters of a text other than those of a set, in their order
RECURSIVE Without(_, _)
Without(text, chars) ==
    IF text = "" THEN ""
    ELSE (IF SubSeq(text, 1, 1) \in chars THEN "" ELSE SubSeq(text, 1, 1))
         \o Without(SubSeq(text, 2, Len(text)), chars)

\* the number of parts of a text between its commas that are not blank: a
\* part is counted at its first character that is no blank
ModelCount(text) ==
    Cardinality({i \in 1..Len(text) :
        /\ SubSeq(text, i, i) \notin {" ", ","}
        /\ \A j \in 1..(i - 1) :
            SubSeq(text, j, j) /= " " => \E c \in j..(i - 1) : SubSeq(text, c, c) = ","})

\* C19: with the required keys there, a models text without a part that is
\* not blank gives the failure of the empty models; a success returns the
\* parts between the commas that are not blank, in their order, each
\* without a comma and without a blank at its ends
C19_ModelsSplit ==
    (Checked /\ MissingKeys = {}) =>
        /\ ~HasModel(params.models.s) =>
            Failed /\ checked.err_msg = "models must not be empty (or separators only)"
        /\ Succeeded =>
            LET models == checked.processed_params.models
            IN  /\ Len(models) >= 1
                /\ Len(models) = ModelCount(params.models.s)
                /\ \A i \in 1..Len(models) :
                    /\ models[i] /= ""
                    /\ SubSeq(models[i], 1, 1) /= " "
                    /\ SubSeq(models[i], Len(models[i]), Len(models[i])) /= " "
                    /\ ~Contains(models[i], ",")
                /\ Without(Concat(models), {" "}) = Without(params.models.s, {" ", ","})

\* a text with blanks around its two names and a comma at its end gives the
\* two names
C19_Witness ==
    /\ pc = "checked"
    /\ params.models = S(" Qwen3-8B , Llama3-7B ,")
    /\ Succeeded
    /\ checked.processed_params.models = <<"Qwen3-8B", "Llama3-7B">>

\* the clauses of a kind in the query
Clauses(kind) ==
    IF query.k = "bool"
    THEN {query.must[i] : i \in {j \in 1..Len(query.must) : query.must[j].k = kind}}
    ELSE {}

\* C20: the query has the clause of the models exactly when a list with a
\* model is given, the clause of the engine version exactly when an engine
\* version is given, and the clause of the time range exactly when a start
\* or an end is given, with gte for the start and lte for the end; without
\* a clause the query is the match of everything
C20_ClausesAsGiven ==
    pc = "query_done" =>
        LET models_given == query_args.model_names.k = "list"
                            /\ query_args.model_names.v /= <<>>
            engine_given == query_args.engine_version /= None
            start_given == query_args.start_time /= None
            end_given == query_args.end_time /= None
        IN  /\ query.k \in {"bool", "match_all"}
            /\ query.k = "match_all" <=>
                ~(models_given \/ engine_given \/ start_given \/ end_given)
            /\ Clauses("terms") =
                    IF models_given
                    THEN {[k |-> "terms", field |-> "source.model_name",
                           values |-> query_args.model_names.v]}
                    ELSE {}
            /\ Clauses("term") =
                    IF engine_given
                    THEN {[k |-> "term", field |-> "source.engine_version",
                           value |-> query_args.engine_version]}
                    ELSE {}
            /\ Cardinality(Clauses("range")) = IF start_given \/ end_given THEN 1 ELSE 0
            /\ \A clause \in Clauses("range") :
                /\ clause.gte /= Absent <=> start_given
                /\ clause.lte /= Absent <=> end_given

(***************************************************************************)
(* Properties of the request handler                                       *)
(***************************************************************************)
Responded == pc = "responded"

\* the argument is the numeral of an integer
IsNumeral(v) == v /= Absent /\ \E n \in ArgInts : ToString(n) = v.s

NumberOf(v) == CHOOSE n \in ArgInts : ToString(n) = v.s

\* the request has the four parameters, an engineVersion of 0, 1 or 2, a
\* startTime not behind its endTime and models that are not blank
RequestValid ==
    /\ IsNumeral(request.startTime)
    /\ IsNumeral(request.endTime)
    /\ IsNumeral(request.engineVersion)
    /\ request.models /= Absent
    /\ NumberOf(request.engineVersion) \in {0, 1, 2}
    /\ NumberOf(request.startTime) <= NumberOf(request.endTime)
    /\ Without(request.models.s, {" "}) /= ""

\* the size argument is missing or the numeral of an integer
SizeReadable == request.size = Absent \/ IsNumeral(request.size)

Searches == Len(es_calls)

ValidatorMessage ==
    LET gone == SelectSeq(HandlerKeys,
                          LAMBDA key : IF key = "models" THEN request.models = Absent
                                       ELSE ~IsNumeral(request[key]))
    IN  IF gone /= <<>> THEN "missing required parameters: " \o Join(gone, ",")
        ELSE IF NumberOf(request.engineVersion) \notin {0, 1, 2}
        THEN "engineVersion invalid: " \o request.engineVersion.s \o ", only 0/1/2"
        ELSE IF NumberOf(request.startTime) > NumberOf(request.endTime)
        THEN "time range invalid: startTime(" \o request.startTime.s \o ") > endTime("
             \o request.endTime.s \o ")"
        ELSE "models must not be empty"

Searched == Searches = 1

\* C22 as stated: a request rejected by validation is answered 400 with the
\* validator's message, a request whose search failed 500, and a request
\* that validates and whose search succeeded 200.
C22_StatusMapping ==
    (Responded /\ es_handler) =>
        /\ ~RequestValid =>
                /\ response.status = 400
                /\ response.body.message = ValidatorMessage
        /\ (Searched /\ es_calls[1].outcome /= "returned") => response.status = 500
        /\ (Searched /\ es_calls[1].outcome = "returned") => response.status = 200

(***************************************************************************)
(* Further properties of the comparison runs                               *)
(***************************************************************************)
\* every hit of the response is one the normaliser skips
AllRejected == \A i \in 1..Len(hits) : NormalizeOne(hits[i]).st = "skip"

\* C23: when the hit list is empty or every hit is rejected by the
\* normaliser, the call does not raise, resolves no commit, builds no group
\* and no row, and returns the empty list.
C23_NoDataNotError ==
    AllRejected =>
        /\ pc \in {"start", "normalized", "done"}
        /\ valid_data = <<>>
        /\ start_commit = None /\ end_commit = None
        /\ data_groups = <<>> /\ all_combinations = {} /\ result = <<>>
        /\ pc = "done" => (output = <<>> /\ exc = "")

C23_Witness ==
    /\ pc = "done"
    /\ Len(hits) = 1
    /\ AllRejected
    /\ output = <<>>
    /\ warnings = <<"request_rate", "no_valid_data">>

(***************************************************************************)
(* Properties of the ESHandler                                             *)
(***************************************************************************)
\* the thread is inside the "with self.lock" block of its method
InBody(t) ==
    /\ calls[t].op \in Locked
    /\ calls[t].pc \in {"index_exists", "ci_exists", "ci_create", "check_id", "write"}

AddCalls == {t \in Threads : calls[t].op = "add_data"}

AddWrites == {w \in es_writes : w.op = "add_data"}

Returned(v) == {t \in AddCalls : calls[t].ret = v}

NoDelete == \A t \in Threads : calls[t].op /= "delete_data"

C24_ReadOnly ==
    [][/\ hits' = hits /\ startTime' = startTime /\ endTime' = endTime
       /\ params' = params
       /\ query_args' = query_args
       /\ request' = request
       /\ es_index' = es_index /\ es_doc' = es_doc /\ es_writes' = es_writes
       /\ \A i \in 1..Len(es_calls') : es_calls'[i].op = "search"]_vars

\* a run that kept a record with a time stamp of its own while the hit it
\* was made from has none
C24_Witness ==
    /\ pc = "done"
    /\ Len(hits) = 2 /\ Len(valid_data) = 2
    /\ hits[1].f["time_stamp"] = Absent
    /\ valid_data[1].f["time_stamp"] /= Absent
    /\ valid_data[1].f["request_rate"] /= hits[1].f["request_rate"]
    /\ output /= <<>>

(***************************************************************************)
(* Properties of the ingestion                                             *)
(***************************************************************************)
IdsOf(list) == {list[i].ID : i \in 1..Len(list)}

NoTwoSameId(list) ==
    \A i, j \in 1..Len(list) : i /= j => list[i].ID /= list[j].ID

\* a list and its ID set are left as they were, or the list gets one item
\* at its end whose ID was not in the set and is in it afterwards
KeptOrAppended(list, list_, ids, ids_) ==
    \/ list_ = list /\ ids_ = ids
    \/ /\ Len(list_) = Len(list) + 1
       /\ SubSeq(list_, 1, Len(list)) = list
       /\ list_[Len(list_)].ID \notin ids
       /\ ids_ = ids \cup {list_[Len(list_)].ID}

\* C26: in every step of generate_metrics_data the total list, every commit
\* group and the date group hold no two items of one ID, each before and
\* after the step; each of them is either left as it was together with its
\* ID set, or gets exactly one item whose ID was not in the set, the ID
\* being put into the set.
C26_UniqueIds ==
    [][/\ NoTwoSameId(total_data) /\ NoTwoSameId(total_data')
       /\ NoTwoSameId(date_grouped) /\ NoTwoSameId(date_grouped')
       /\ \A c \in DOMAIN commit_id_grouped' : NoTwoSameId(commit_id_grouped'[c])
       /\ KeptOrAppended(total_data, total_data', total_existing_ids, total_existing_ids')
       /\ KeptOrAppended(date_grouped, date_grouped', date_existing_ids, date_existing_ids')
       /\ \A c \in DOMAIN commit_id_grouped' :
             KeptOrAppended(Group(commit_id_grouped, c, <<>>), commit_id_grouped'[c],
                            Group(commit_existing_ids, c, {}),
                            Group(commit_existing_ids', c, {}))]_vars

\* two items of one ID were made, and the second was not collected
C26_Witness ==
    /\ pc = "ingested"
    /\ Len(all_valid_metrics) = 2
    /\ all_valid_metrics[1].ID = all_valid_metrics[2].ID
    /\ all_valid_metrics[1] /= all_valid_metrics[2]
    /\ Len(total_data) = 1
    /\ Len(date_grouped) = 1

(***************************************************************************)
(* Further properties of check_input_params                                *)
(***************************************************************************)
\* the call has returned a failure whose message has the word in it
FailedWith(word) == Failed /\ Contains(checked.err_msg, word)

\* C27: a bag with defects gets one failure, that of the first check it
\* does not pass, the checks being in the order missing parameter, empty
\* models, invalid engineVersion, invalid time range.
C27_FirstFailure ==
    Checked =>
        IF MissingKeys /= {} THEN FailedWith("missing required parameters")
        ELSE IF ~HasModel(params.models.s) THEN FailedWith("models must not be empty")
        ELSE IF params.engineVersion \notin {I(0), I(1), I(2)}
        THEN FailedWith("engineVersion invalid")
        ELSE (params.startTime.v > params.endTime.v) => FailedWith("time range invalid")

(***************************************************************************)
(* The rows of the comparison and their combinations                       *)
(***************************************************************************)
\* the combinations with a valid record under the start or the end commit
SidedCombinations == {combo \in ValidCombinations : ~NoSide(combo)}

\* C28: a run with a valid record does not raise and returns as many rows as
\* there are combinations with a valid record under start_commit or
\* end_commit, which is at least one; a combination whose records are all
\* of other commits has no row.
C28_RowCount ==
    /\ valid_data /= <<>> => pc /= "raised"
    /\ Done =>
        /\ Len(output) = Cardinality(SidedCombinations)
        /\ Len(output) >= 1
        /\ \A combo \in ValidCombinations :
              NoSide(combo) => RowsFor(output, combo) = {}

\* records of three combinations, all compared at the time of c1: the
\* combination measured under c2 only has no row
C28_Witness ==
    /\ pc = "done"
    /\ Cardinality(ValidCombinations) = 3
    /\ start_commit = S("c1") /\ end_commit = S("c1")
    /\ NoSide(<<S("Qwen3-8B"), I(16)>>)
    /\ Len(output) = 2

\* C29: every returned row has the name and the request_rate of a
\* combination with a record under one of the two commits, every such
\* combination has exactly one row, and no two rows have the same name and
\* request_rate, so no two rows have the same sort key.
C29_OneRowPerCombination ==
    Done =>
        /\ \A r \in 1..Len(output) :
              \E combo \in SidedCombinations : r \in RowsFor(output, combo)
        /\ \A combo \in SidedCombinations : Cardinality(RowsFor(output, combo)) = 1
        /\ \A r, q \in 1..Len(output) :
              r /= q =>
                  \/ output[r].f["name"] /= output[q].f["name"]
                  \/ output[r].f["request_rate"] /= output[q].f["request_rate"]

\* three records of one combination, of two commits and two tp, give one row
C29_Witness ==
    /\ pc = "done"
    /\ Len(valid_data) = 3
    /\ Cardinality(ValidCombinations) = 1
    /\ Cardinality({valid_data[i].f["commit_id"] : i \in ValidIdx}) = 2
    /\ Cardinality({valid_data[i].f["tp"] : i \in ValidIdx}) = 2
    /\ Len(output) = 1

(***************************************************************************)
(* The lock of the ESHandler                                               *)
(***************************************************************************)
\* the lock is held by a thread exactly while the thread is inside the
\* "with self.lock" block of its method
LockHeldInBody ==
    /\ lock \in {0} \cup Threads
    /\ \A t \in Threads : lock = t <=> InBody(t)
    /\ \A t \in Threads : calls[t].pc \in {"done", "raised"} => lock /= t
    /\ \A t \in Threads : calls[t].op = "create_index" => lock /= t
    /\ \A t \in Threads : calls[t].pc = "acquire" => lock /= t

\* C30: the lock is held only inside the locked block of add_data,
\* update_data or delete_data, so it is free of a call that has returned or
\* let an exception out; a thread holding the lock never waits for it
\* (create_index, also inside add_data, takes no lock); and every call
\* waiting for the lock gets it.
C30_LockReleased ==
    /\ []LockHeldInBody
    /\ \A t \in Threads : (calls[t].pc = "acquire") ~> (lock = t)

\* thread 1 let an exception out of add_data after it created the index
\* inside the locked block, and thread 2 holds the lock after it
C30_Witness ==
    /\ calls[1].op = "add_data" /\ calls[1].inner /\ calls[1].pc = "raised"
    /\ [t |-> 1, op |-> "create_index", over |-> FALSE] \in es_writes
    /\ calls[2].op \in Locked
    /\ lock = 2

====
